---- MODULE Spec2Model ----
(***************************************************************************)
(* Model of PhysicsSceneBuilder (src/unnamed/part_001): the scene data     *)
(* store, its projection into rigid bodies for the side and the top view,  *)
(* the custom constraint solver that runs before every engine step, the    *)
(* collision handler (friction constraints, conveyor belts) and the        *)
(* slicer of cutObject.                                                    *)
(*                                                                         *)
(* Numbers.  Coordinates, sizes and velocities are integers (pixels);      *)
(* divisions truncate.  Stiffness, damping and the friction of a body are  *)
(* held in hundredths (0.5 is 50), body masses in thousandths (density     *)
(* 0.001 times area is the area), angles in quarter turns, so that         *)
(* Vector.rotate is exact.  JavaScript's undefined is Undef for numbers    *)
(* and NoId for ids.                                                       *)
(***************************************************************************)
EXTENDS Integers, Sequences, FiniteSets, TLC

VARIABLES sceneData, entities, bodies, world, nextBid, currentViewMode,
          gravity, globalAirResistance, customConstraints, tickCount,
          updateCount, solveLog, pairs, trajectories, thrown, history,
          sharesData, sharesList, last

vars == <<sceneData, entities, bodies, world, nextBid, currentViewMode,
          gravity, globalAirResistance, customConstraints, tickCount,
          updateCount, solveLog, pairs, trajectories, thrown, history,
          sharesData, sharesList, last>>

\* the trajectory store, the exception flag and the editor's saved state with
\* its two shared references
keptVars == <<trajectories, thrown, history, sharesData, sharesList>>

\* ------------------------------------------------------------------ bounds
MaxBodies == 4
MaxTicks == 1
MaxConstraints == 2
MaxUpdates == 1
SolverTicks == 2
RopeTicks == 2
PulleyTicks == 8
CollisionTicks == 4
MaxCutBodies == 6
MaxVertices == 8

\* --------------------------------------------------------------- constants
Undef == -9999
NoId == ""
IdSeq == <<"a", "b">>
Ids == {IdSeq[i] : i \in 1..Len(IdSeq)}
\* the ids of cut pieces: id_A and id_B for every id, level by level
RECURSIVE IdLevel(_)
IdLevel(k) ==
    IF k = 0 THEN IdSeq
    ELSE LET prev == IdLevel(k - 1)
         IN [i \in 1..(2 * Len(prev)) |->
                prev[(i + 1) \div 2] \o (IF i % 2 = 1 THEN "_A" ELSE "_B")]
RECURSIVE IdsUpTo(_)
IdsUpTo(k) == IF k = 0 THEN IdLevel(0) ELSE IdsUpTo(k - 1) \o IdLevel(k)
AllIdSeq == IdsUpTo(MaxCutBodies \div 2)
\* the place of an id in the enumeration of the scene data
IdIndex(id) == CHOOSE i \in 1..Len(AllIdSeq) : AllIdSeq[i] = id

Vec(px, py) == [x |-> px, y |-> py]
Zero == Vec(0, 0)
VAdd(u, v) == Vec(u.x + v.x, u.y + v.y)
VSub(u, v) == Vec(u.x - v.x, u.y - v.y)
VNeg(u) == Vec(0 - u.x, 0 - u.y)
VDot(u, v) == u.x * v.x + u.y * v.y
MagnitudeSquared(v) == v.x * v.x + v.y * v.y

Abs(n) == IF n < 0 THEN 0 - n ELSE n
\* truncating division, as a float division followed by dropping the fraction
Div(n, d) == IF n >= 0 THEN n \div d ELSE 0 - ((0 - n) \div d)

\* floor of the square root, by bisection on lo..hi with lo*lo <= n < hi*hi
RECURSIVE IsqrtIn(_, _, _)
IsqrtIn(n, lo, hi) ==
    IF hi - lo <= 1 THEN lo
    ELSE LET mid == (lo + hi) \div 2
         IN IF mid * mid <= n THEN IsqrtIn(n, mid, hi) ELSE IsqrtIn(n, lo, mid)
Isqrt(n) == IF n <= 0 THEN 0 ELSE IsqrtIn(n, 0, 40000)
Magnitude(v) == Isqrt(MagnitudeSquared(v))

\* Vector.rotate by a whole number of quarter turns
Rotate(v, q) ==
    CASE q % 4 = 0 -> v
      [] q % 4 = 1 -> Vec(0 - v.y, v.x)
      [] q % 4 = 2 -> Vec(0 - v.x, 0 - v.y)
      [] OTHER -> Vec(v.y, 0 - v.x)

\* ----------------------------------------------------------- vertex loops
Cross(u, v) == u.x * v.y - u.y * v.x
\* the vertex after vs[i], around the loop
After(vs, i) == vs[(i % Len(vs)) + 1]

\* twice the signed area of a loop
RECURSIVE Area2Upto(_, _)
Area2Upto(vs, i) ==
    IF i = 0 THEN 0 ELSE Area2Upto(vs, i - 1) + Cross(vs[i], After(vs, i))
Area2(vs) == Area2Upto(vs, Len(vs))

\* Vertices.centre: the area centroid (not a number for a loop of no area)
RECURSIVE CentreSum(_, _)
CentreSum(vs, i) ==
    IF i = 0 THEN Zero
    ELSE LET c == Cross(vs[i], After(vs, i))
             t == VAdd(vs[i], After(vs, i))
         IN VAdd(CentreSum(vs, i - 1), Vec(t.x * c, t.y * c))
Centre(vs) ==
    IF Area2(vs) = 0 THEN Vec(Undef, Undef)
    ELSE Vec(Div(CentreSum(vs, Len(vs)).x, 3 * Area2(vs)),
             Div(CentreSum(vs, Len(vs)).y, 3 * Area2(vs)))

\* a loop moved by -c
Relative(vs, c) == [i \in 1..Len(vs) |-> VSub(vs[i], c)]

\* Bodies.fromVertices: the outline about its own centroid
FromVertices(vs) == Relative(vs, Centre(vs))

IsOffsetType(t) == t \in {"Triangle", "Incline", "Cone", "Trapezoid"}

_getCenterOffset(type, width, height) ==
    IF type \in {"Triangle", "Incline"} THEN Vec(Div(width, 6), Div(height, 6))
    ELSE IF type = "Cone" THEN Vec(0, Div(height, 6))
    ELSE IF type = "Trapezoid" THEN
        LET denom == 6 * (2 * width - height)
        IN IF denom <= 0 THEN Zero ELSE Vec(0, Div(height * height, denom))
    ELSE Zero

\* ------------------------------------------------------- projection engine
\* JavaScript truthiness of a number that may be undefined
Truthy(n) == n # Undef /\ n # 0

RenderW(data) ==
    IF data.width # Undef THEN data.width
    ELSE IF Truthy(data.radius) THEN data.radius * 2 ELSE 50

RenderH(data, mode) ==
    LET d == IF mode = "side" THEN data.height ELSE data.depth
    IN IF d # Undef THEN d
       ELSE IF Truthy(data.radius) THEN data.radius * 2 ELSE 50

RenderX(data) == data.x
RenderY(data, mode) == IF mode = "side" THEN data.y ELSE data.z

\* offsetX, offsetY of _createBodyFromData
CreateOffset(data, mode) ==
    IF mode = "side" /\ IsOffsetType(data.type)
    THEN _getCenterOffset(data.type, RenderW(data), RenderH(data, mode))
    ELSE Zero

\* commonOptions.angle
OptionsAngle(data, mode) ==
    LET a == IF mode = "side" THEN data.angle
             ELSE (IF Truthy(data.angleTop) THEN data.angleTop ELSE 0)
    IN IF Truthy(a) THEN a ELSE 0

\* commonOptions.frictionAir
OptionsFrictionAir(data, gAir) ==
    IF data.frictionAir # Undef THEN data.frictionAir
    ELSE IF Truthy(gAir) THEN gAir ELSE 0

\* the engine's default friction 0.1 when the option is undefined
OptionsFriction(data) == IF data.friction # Undef THEN data.friction ELSE 10

\* density 0.001 times area, in thousandths
AreaMass(kind, w, h) ==
    CASE kind = "rect" -> w * h
      [] kind = "tri" -> (w * h) \div 2
      [] kind = "trap" -> (3 * w * h) \div 4
      [] OTHER -> (3 * w * h) \div 4

\* step 1 of _createBodyFromData: the shape for (type, view); <<>> when the
\* type has no mapping
ShapeBody(data, mode) ==
    LET rx == RenderX(data)
        ry == RenderY(data, mode)
        rw == RenderW(data)
        rh == RenderH(data, mode)
        off == CreateOffset(data, mode)
        S(kind, px, py, w, h, st) ==
            <<[kind |-> kind, pos |-> Vec(px, py), w |-> w, h |-> h,
               isStatic |-> st, local |-> <<>>]>>
        t == data.type
    IN IF t \in {"Rectangle", "Box", "Ground", "Wall", "Conveyor"}
           THEN S("rect", rx, ry, rw, rh, data.isStatic)
       ELSE IF "customVertices" \in DOMAIN data THEN
           IF mode = "side"
           THEN <<[kind |-> "cpoly", pos |-> Vec(rx, ry), w |-> Undef, h |-> Undef,
                   isStatic |-> data.isStatic,
                   local |-> FromVertices(data.customVertices)]>>
           ELSE S("rect", rx, ry, 50, IF Truthy(data.depth) THEN data.depth ELSE 50,
                  data.isStatic)
       ELSE IF t = "Circle" THEN S("circle", rx, ry, rw, rh, data.isStatic)
       ELSE IF t \in {"Triangle", "Incline"} THEN
           IF mode = "side"
           THEN S("tri", rx + off.x, ry + off.y, rw, rh, data.isStatic)
           ELSE S("rect", rx, ry, rw, rh, data.isStatic)
       ELSE IF t = "Trapezoid" THEN
           IF mode = "side"
           THEN S("trap", rx + off.x, ry + off.y, rw, rh, data.isStatic)
           ELSE S("rect", rx, ry, rw, rh, data.isStatic)
       ELSE IF t = "Capsule" THEN S("rect", rx, ry, rw, rh, data.isStatic)
       ELSE IF t = "Text" THEN S("rect", rx, ry, rw, rh, TRUE)
       ELSE IF t = "Polygon" THEN S("poly", rx, ry, rw, rh, data.isStatic)
       ELSE IF t = "Cone" THEN
           IF mode = "side"
           THEN S("tri", rx + off.x, ry + off.y, rw, rh, data.isStatic)
           ELSE S("circle", rx, ry, rw, rh, data.isStatic)
       ELSE <<>>

\* step 2 of _createBodyFromData: the final body (a 2px circle at the render
\* position for a point mass, the shape otherwise), or <<>>
NewBody(data, mode, gAir, bid) ==
    LET sh == ShapeBody(data, mode)
        B(kind, pos, w, h, st, pm, local) ==
            <<[bid |-> bid, label |-> data.id, kind |-> kind, pos |-> pos,
               vel |-> Zero, force |-> Zero, torque |-> 0,
               angle |-> OptionsAngle(data, mode), w |-> w, h |-> h,
               isStatic |-> st, isPointMass |-> pm, local |-> local,
               mass |-> IF Truthy(data.mass) THEN data.mass * 1000
                        ELSE IF kind = "cpoly" THEN Abs(Area2(local)) \div 2
                        ELSE AreaMass(kind, w, h),
               friction |-> OptionsFriction(data),
               frictionAir |-> OptionsFrictionAir(data, gAir)]>>
    IN IF data.isPointMass
       THEN B("circle", Vec(RenderX(data), RenderY(data, mode)), 4, 4,
              data.isStatic, TRUE, <<>>)
       ELSE IF sh = <<>> THEN <<>>
       ELSE B(sh[1].kind, sh[1].pos, sh[1].w, sh[1].h, sh[1].isStatic, FALSE,
              sh[1].local)

\* The body store: bodies (bid -> body), entities (id -> bid), world (bids in
\* the engine's composite), nextBid (next fresh body identity)
Heap(b, e, w, n) == [bodies |-> b, entities |-> e, world |-> w, nextBid |-> n]

\* drop bodies that neither the world nor the id map refers to any more
Collect(H) ==
    LET liveBids == H.world \cup {H.entities[i] : i \in DOMAIN H.entities}
    IN [H EXCEPT !.bodies = [b \in (DOMAIN H.bodies) \cap liveBids |-> H.bodies[b]]]

_createBodyFromData(H, data, mode, gAir) ==
    LET nb == NewBody(data, mode, gAir, H.nextBid)
    IN IF nb = <<>> THEN H
       ELSE Heap([b \in DOMAIN H.bodies \cup {H.nextBid} |->
                     IF b = H.nextBid THEN nb[1] ELSE H.bodies[b]],
                 [i \in DOMAIN H.entities \cup {data.id} |->
                     IF i = data.id THEN H.nextBid ELSE H.entities[i]],
                 H.world \cup {H.nextBid},
                 H.nextBid + 1)

\* bounds.max - bounds.min of a body turned by whole quarter turns
BoundsW(body) == IF body.angle % 2 = 0 THEN body.w ELSE body.h
BoundsH(body) == IF body.angle % 2 = 0 THEN body.h ELSE body.w

HeapNow == Heap(bodies, entities, world, nextBid)

HasBody(H, id) == id \in DOMAIN H.entities
BodyOf(H, id) == H.bodies[H.entities[id]]

\* Object.assign(data, updates) for an update naming fields of the object
Assign(data, u) ==
    [f \in DOMAIN data |-> IF f \in DOMAIN u THEN u[f] ELSE data[f]]

\* a sync that writes the pairs of both views
SyncOne_BothPairs(data, body, mode) ==
    [data EXCEPT !.x = body.pos.x, !.y = body.pos.y, !.angle = body.angle,
                 !.z = body.pos.y, !.angleTop = body.angle]

\* one body of syncToSceneData: position minus the offset, written to x and
\* to the pair of the current view
SyncOne(data, body, mode) ==
    LET off == IF mode = "side" /\ IsOffsetType(data.type)
               THEN _getCenterOffset(data.type,
                        IF Truthy(data.width) THEN data.width ELSE BoundsW(body),
                        IF Truthy(data.height) THEN data.height ELSE BoundsH(body))
               ELSE Zero
        bodyX == body.pos.x - off.x
        bodyY == body.pos.y - off.y
    IN IF mode = "side"
       THEN [data EXCEPT !.x = bodyX, !.y = bodyY, !.angle = body.angle]
       ELSE [data EXCEPT !.x = bodyX, !.z = bodyY, !.angleTop = body.angle]

syncToSceneData(sd, H, mode) ==
    [id \in DOMAIN sd |->
        IF HasBody(H, id) THEN SyncOne(sd[id], BodyOf(H, id), mode)
        ELSE sd[id]]

\* the scene objects in enumeration order
RECURSIVE CreateAll(_, _, _, _, _)
CreateAll(H, sd, todo, mode, gAir) ==
    IF todo = {} THEN H
    ELSE LET id == CHOOSE i \in todo : \A j \in todo : IdIndex(i) <= IdIndex(j)
         IN CreateAll(_createBodyFromData(H, sd[id], mode, gAir), sd,
                      todo \ {id}, mode, gAir)

\* gravity.y as rebuildWorld sets it
RebuildGravity(g, mode) == [g EXCEPT !.y = IF mode = "top" THEN 0 ELSE 1]

\* rebuildWorld: Composite.clear, entities = {}, then a body per object
rebuildWorld(H, sd, mode, gAir) ==
    Collect(CreateAll(Heap(<<>>, <<>>, {}, H.nextBid), sd, DOMAIN sd, mode, gAir))

\* a rebuild of every body instead of the one named
_recreateBody_All(H, sd, id, mode, gAir) == rebuildWorld(H, sd, mode, gAir)

_recreateBody(H, sd, id, mode, gAir) ==
    LET H1 == IF HasBody(H, id)
              THEN [H EXCEPT !.world = H.world \ {H.entities[id]}]
              ELSE H
    IN Collect(_createBodyFromData(H1, sd[id], mode, gAir))

\* ------------------------------------------------------------- scene store
\* a scene object as createObject stores it: { ...data, id }
SceneObject(id, type, x, y, w, h, st, pm) ==
    [id |-> id, type |-> type, x |-> x, y |-> y, z |-> 300,
     angle |-> 0, angleTop |-> Undef, width |-> w, height |-> h, depth |-> 60,
     radius |-> Undef, sides |-> Undef, isStatic |-> st, isPointMass |-> pm,
     mass |-> 1, friction |-> Undef, frictionAir |-> Undef]

\* the updates the operations are tried with, by index
UpdateSeq ==
    << <<>>,
       [x |-> 200, y |-> 160],
       [width |-> 0],
       [width |-> 120],
       [isPointMass |-> TRUE],
       [angle |-> 1] >>

Has(u, f) == f \in DOMAIN u

\* the test that sends updateObject to _recreateBody
NeedsRecreate(u) ==
    \/ Has(u, "width") /\ Truthy(u.width)
    \/ Has(u, "height") /\ Truthy(u.height)
    \/ Has(u, "depth") /\ Truthy(u.depth)
    \/ Has(u, "radius") /\ Truthy(u.radius)
    \/ Has(u, "sides") /\ Truthy(u.sides)
    \/ Has(u, "isPointMass")

\* the in-place part of updateObject: setAngle, setPosition to the recorded
\* coordinates plus the offset, then the property setters
UpdateBodyInPlace(body, data, u, mode, props) ==
    LET ang == IF mode = "side"
               THEN (IF Has(u, "angle") THEN u.angle ELSE body.angle)
               ELSE (IF Has(u, "angleTop") THEN u.angleTop ELSE body.angle)
        off == IF mode = "side" /\ IsOffsetType(data.type)
               THEN _getCenterOffset(data.type, data.width, data.height)
               ELSE Zero
        target == Vec(data.x + off.x,
                      (IF mode = "side" THEN data.y ELSE data.z) + off.y)
        b1 == [body EXCEPT !.angle = ang, !.pos = target]
    IN IF ~props THEN b1
       ELSE [b1 EXCEPT
               !.isStatic = IF Has(u, "isStatic") THEN u.isStatic ELSE @,
               !.mass = IF Has(u, "mass") THEN u.mass * 1000 ELSE @,
               !.friction = IF Has(u, "friction") THEN u.friction ELSE @,
               !.frictionAir = IF Has(u, "frictionAir") THEN u.frictionAir ELSE @]

\* history: the operation that led to the state, its id and argument, and for
\* setViewMode the positions and angles of the bodies before a round trip
Last(op, id, arg, snap) == [op |-> op, id |-> id, arg |-> arg, snap |-> snap]

BodySnap == [id \in DOMAIN entities |->
                [pos |-> bodies[entities[id]].pos, angle |-> bodies[entities[id]].angle]]

Init ==
    /\ sceneData = <<>>
    /\ entities = <<>>
    /\ bodies = <<>>
    /\ world = {}
    /\ nextBid = 1
    /\ currentViewMode = "side"
    /\ gravity = Vec(0, 1)
    /\ globalAirResistance = 0
    /\ customConstraints = <<>>
    /\ tickCount = 0
    /\ updateCount = 0
    /\ solveLog = <<>>
    /\ pairs = <<>>
    /\ trajectories = <<>>
    /\ thrown = FALSE
    /\ history = <<>>
    /\ sharesData = FALSE
    /\ sharesList = FALSE
    /\ last = Last("init", NoId, 0, <<>>)

SetHeap(H) ==
    /\ bodies' = H.bodies
    /\ entities' = H.entities
    /\ world' = H.world
    /\ nextBid' = H.nextBid

createObject(id, data) ==
    /\ nextBid <= MaxBodies
    /\ sceneData' = [i \in DOMAIN sceneData \cup {id} |->
                        IF i = id THEN [data EXCEPT !.id = id] ELSE sceneData[i]]
    /\ SetHeap(Collect(_createBodyFromData(HeapNow, [data EXCEPT !.id = id],
                                           currentViewMode, globalAirResistance)))
    /\ last' = Last("createObject", id, 0, <<>>)
    /\ UNCHANGED <<currentViewMode, gravity, globalAirResistance,
                   customConstraints, tickCount, updateCount, solveLog, pairs, keptVars>>

\* updateObject for an id of the scene data, with the updates u (k names
\* them in the history)
updateObjectWith(id, u, k) ==
    LET data == Assign(sceneData[id], u)
        sd == [sceneData EXCEPT ![id] = data]
    IN /\ id \in DOMAIN sceneData
       /\ updateCount < MaxUpdates
       /\ updateCount' = updateCount + 1
       /\ (NeedsRecreate(u) /\ HasBody(HeapNow, id)) => nextBid <= MaxBodies
       /\ sceneData' = sd
       /\ IF HasBody(HeapNow, id)
          THEN LET bid == entities[id]
                   H1 == [HeapNow EXCEPT !.bodies[bid] =
                             UpdateBodyInPlace(@, data, u, currentViewMode,
                                               ~NeedsRecreate(u))]
               IN IF NeedsRecreate(u)
                  THEN SetHeap(_recreateBody(H1, sd, id, currentViewMode,
                                             globalAirResistance))
                  ELSE SetHeap(H1)
          ELSE UNCHANGED <<bodies, entities, world, nextBid>>
       /\ last' = Last("updateObject", id, k, <<>>)
       /\ UNCHANGED <<currentViewMode, gravity, globalAirResistance,
                      customConstraints, tickCount, solveLog, pairs, keptVars>>

updateObject(id, k) == updateObjectWith(id, UpdateSeq[k], k)

\* the body store and the scene data after removeObject
RemoveBody(H, id) ==
    [H EXCEPT !.world = IF HasBody(H, id) THEN @ \ {H.entities[id]} ELSE @,
              !.entities = [i \in DOMAIN H.entities \ {id} |-> H.entities[i]]]
RemoveData(sd, id) == [i \in DOMAIN sd \ {id} |-> sd[i]]

removeObject(id) ==
    /\ SetHeap(Collect(RemoveBody(HeapNow, id)))
    /\ sceneData' = RemoveData(sceneData, id)
    /\ last' = Last("removeObject", id, IF id \in DOMAIN sceneData THEN 1 ELSE 0, <<>>)
    /\ UNCHANGED <<currentViewMode, gravity, globalAirResistance,
                   customConstraints, tickCount, updateCount, solveLog, pairs, keptVars>>

setViewMode(mode) ==
    LET sd == syncToSceneData(sceneData, HeapNow, currentViewMode)
    IN /\ currentViewMode # mode =>
              nextBid + Cardinality(DOMAIN sceneData) <= MaxBodies + 1
       /\ IF currentViewMode = mode
          THEN UNCHANGED <<sceneData, entities, bodies, world, nextBid,
                           currentViewMode, gravity>>
          ELSE /\ sceneData' = sd
               /\ currentViewMode' = mode
               /\ gravity' = RebuildGravity(gravity, mode)
               /\ SetHeap(rebuildWorld(HeapNow, sd, mode, globalAirResistance))
       /\ last' = IF currentViewMode = mode
                  THEN Last("setViewMode", NoId, 0, <<>>)
                  ELSE IF last.op = "setViewMode" /\ last.arg = 1
                  THEN Last("setViewMode", NoId, 2, last.snap)
                  ELSE Last("setViewMode", NoId, 1, BodySnap)
       /\ UNCHANGED <<globalAirResistance, customConstraints, tickCount, updateCount, solveLog, pairs, keptVars>>

\* setEngineProperties: gravity components and air resistance, each when
\* given; the air resistance is also written to every non-static body of the
\* world
setEngineProperties(props) ==
    /\ gravity' = IF Has(props, "gravity")
                  THEN Vec(IF props.gravity.x # Undef THEN props.gravity.x
                           ELSE gravity.x,
                           IF props.gravity.y # Undef THEN props.gravity.y
                           ELSE gravity.y)
                  ELSE gravity
    /\ globalAirResistance' = IF Has(props, "airResistance")
                              THEN props.airResistance ELSE globalAirResistance
    /\ bodies' = IF Has(props, "airResistance")
                 THEN [bid \in DOMAIN bodies |->
                         IF bid \in world /\ ~bodies[bid].isStatic
                         THEN [bodies[bid] EXCEPT !.frictionAir = props.airResistance]
                         ELSE bodies[bid]]
                 ELSE bodies
    /\ last' = Last("setEngineProperties", NoId, 0, <<>>)
    /\ UNCHANGED <<sceneData, entities, world, nextBid, currentViewMode,
                   customConstraints, tickCount, updateCount, solveLog, pairs, keptVars>>

\* -------------------------------------------------------- constraint solver
Min(a, b) == IF a < b THEN a ELSE b
Max(a, b) == IF a > b THEN a ELSE b

\* a connector as the create* methods store it
Connector(id, type, a, b, pA, pB, len, maxF, el, stiff) ==
    [id |-> id, type |-> type, bodyAId |-> a, bodyBId |-> b,
     pointA |-> pA, pointB |-> pB, pointC |-> Vec(-50, -200),
     pointD |-> Vec(50, -200), length |-> len, maxForce |-> maxF,
     isElastic |-> el, stiffness |-> stiff, damping |-> Undef,
     vector |-> Zero, friction |-> Undef]

\* a reference kept from the time the body was first made: the oldest body of
\* the store that was built for the id
Resolve_Cached(H, bodyId) ==
    LET made == {bid \in DOMAIN H.bodies : H.bodies[bid].label = bodyId}
    IN IF bodyId # NoId /\ made # {}
       THEN <<CHOOSE bid \in made : \A other \in made : bid <= other>>
       ELSE <<>>

\* constraint.bodyA / bodyB of the solver loops: the body now registered under
\* the id, <<>> for null
Resolve(H, bodyId) ==
    IF bodyId # NoId /\ HasBody(H, bodyId) THEN <<H.entities[bodyId]>> ELSE <<>>

\* (bodyAId && !bodyA) || (bodyBId && !bodyB)
MissingBody(H, c) ==
    \/ c.bodyAId # NoId /\ ~HasBody(H, c.bodyAId)
    \/ c.bodyBId # NoId /\ ~HasBody(H, c.bodyBId)

\* world position of an end: body position plus rotated local offset, or the
\* fixed point
AnchorPos(H, ref, point) ==
    IF ref # <<>>
    THEN VAdd(H.bodies[ref[1]].pos, Rotate(point, H.bodies[ref[1]].angle))
    ELSE point

\* every body counts as movable
Dynamic_Any(H, ref) == ref # <<>>

Dynamic(H, ref) == ref # <<>> /\ ~H.bodies[ref[1]].isStatic

\* inverseMass / totalInverseMass as a fraction num/den of body masses
RatioNum(H, ref, other) ==
    IF Dynamic(H, other) THEN H.bodies[other[1]].mass ELSE 1
RatioDen(H, ref, other) ==
    IF Dynamic(H, other)
    THEN H.bodies[ref[1]].mass + H.bodies[other[1]].mass ELSE 1

\* Matter.Body.applyForce(body, position, force); forces are in hundredths
ApplyForce(H, bid, at, f) ==
    LET b == H.bodies[bid]
        off == VSub(at, b.pos)
    IN [H EXCEPT !.bodies[bid] =
           [b EXCEPT !.force = VAdd(b.force, f),
                     !.torque = b.torque + (off.x * f.y - off.y * f.x)]]

\* Matter.Body.translate
Translate(H, bid, move) ==
    [H EXCEPT !.bodies[bid].pos = VAdd(@, move)]

SetVelocity(H, bid, v) == [H EXCEPT !.bodies[bid].vel = v]

\* _removeConstraint: every entry with that id is filtered out
_removeConstraint(cons, id) == SelectSeq(cons, LAMBDA c : c.id # id)

\* the stiffness factor k of the position solvers, in hundredths
PbdK(c) == IF Truthy(c.stiffness) THEN Min(Max(c.stiffness, 10), 100) ELSE 80

Solved(H, cons) == [H |-> H, cons |-> cons]

\* a break test of the non-elastic rope against maxForce itself
IdealBreaks_Unscaled(rope, diff) ==
    Truthy(rope.maxForce) /\ diff > rope.maxForce

\* the break tests of _solveIdealRope
ElasticBreaks(rope, diff) ==
    LET forceMag == (IF Truthy(rope.stiffness) THEN rope.stiffness ELSE 50) * diff
    IN Truthy(rope.maxForce) /\ forceMag > rope.maxForce * 100
IdealBreaks(rope, diff) ==
    Truthy(rope.maxForce) /\ diff * 10 > rope.maxForce

\* normal * n, the normal being v / dist (the zero vector when dist is 0)
Along(v, n, dist) ==
    IF dist = 0 THEN Zero ELSE Vec(Div(v.x * n, dist), Div(v.y * n, dist))

\* one end of the position correction: translate under the 50px cap, then
\* damp the velocity along the normal (sign picks the end)
PbdMove(H, ref, other, diffVec, dist, diff, kH, sign) ==
    IF ~Dynamic(H, ref) THEN H
    ELSE LET bid == ref[1]
             num == RatioNum(H, ref, other) * kH * sign
             den == RatioDen(H, ref, other) * 100
             corr == Along(diffVec, diff, dist)
             move == Vec(Div(corr.x * num, den), Div(corr.y * num, den))
             vel == H.bodies[bid].vel
             along == VDot(vel, diffVec)
             cv == Along(diffVec, along, 2 * dist * dist)
         IN IF MagnitudeSquared(move) < 2500
            THEN LET H1 == Translate(H, bid, move)
                 IN IF along * sign < 0
                    THEN SetVelocity(H1, bid, VSub(vel, cv))
                    ELSE H1
            ELSE H

\* a rod in place of the rope: it corrects the distance whether the ends are
\* farther apart than the length or nearer
_solveIdealRope_Rigid(H, cons, rope) ==
    LET A == Resolve(H, rope.bodyAId)
        B == Resolve(H, rope.bodyBId)
        posA == AnchorPos(H, A, rope.pointA)
        posB == AnchorPos(H, B, rope.pointB)
        diffVec == VSub(posB, posA)
        currentDist == Magnitude(diffVec)
        diff == currentDist - rope.length
    IN IF rope.isElastic
       THEN Solved(IF Dynamic(H, A)
                   THEN ApplyForce(H, A[1], posA, Along(diffVec, 50 * diff, currentDist))
                   ELSE H, cons)
       ELSE Solved(PbdMove(H, A, B, diffVec, currentDist, diff, PbdK(rope), 1), cons)

_solveIdealRope(H, cons, rope) ==
    LET A == Resolve(H, rope.bodyAId)
        B == Resolve(H, rope.bodyBId)
        posA == AnchorPos(H, A, rope.pointA)
        posB == AnchorPos(H, B, rope.pointB)
        diffVec == VSub(posB, posA)
        currentDist == Magnitude(diffVec)
        diff == currentDist - rope.length
    IN IF A = <<>> /\ B = <<>> THEN Solved(H, cons)
       ELSE IF rope.length = Undef \/ ~(currentDist > rope.length)
           THEN Solved(H, cons)
       ELSE IF rope.isElastic THEN
           IF ElasticBreaks(rope, diff)
           THEN Solved(H, _removeConstraint(cons, rope.id))
           ELSE LET sH == IF Truthy(rope.stiffness) THEN rope.stiffness ELSE 50
                    force == Along(diffVec, sH * diff, currentDist)
                    H1 == IF Dynamic(H, A) THEN ApplyForce(H, A[1], posA, force)
                          ELSE H
                    H2 == IF Dynamic(H1, B)
                          THEN ApplyForce(H1, B[1], posB, VNeg(force)) ELSE H1
                IN Solved(H2, cons)
       ELSE IF IdealBreaks(rope, diff)
           THEN Solved(H, _removeConstraint(cons, rope.id))
       ELSE IF ~(Dynamic(H, A) \/ Dynamic(H, B)) THEN Solved(H, cons)
       ELSE LET kH == PbdK(rope)
                H1 == PbdMove(H, A, B, diffVec, currentDist, diff, kH, 1)
                H2 == PbdMove(H1, B, A, diffVec, currentDist, diff, kH, -1)
            IN Solved(H2, cons)

_solveSpring(H, cons, spring) ==
    LET A == Resolve(H, spring.bodyAId)
        B == Resolve(H, spring.bodyBId)
        posA == AnchorPos(H, A, spring.pointA)
        posB == AnchorPos(H, B, spring.pointB)
        diffVec == VSub(posB, posA)
        currentDist == Magnitude(diffVec)
        diff == currentDist - spring.length
        stiffness == IF Truthy(spring.stiffness) THEN spring.stiffness ELSE 1
        damping == IF Truthy(spring.damping) THEN spring.damping ELSE 10
        velA == IF A # <<>> THEN H.bodies[A[1]].vel ELSE Zero
        velB == IF B # <<>> THEN H.bodies[B[1]].vel ELSE Zero
        force == Along(diffVec, stiffness * diff, currentDist)
        dampingForce == Along(diffVec, VDot(VSub(velB, velA), diffVec) * damping,
                              currentDist * currentDist)
        totalForce == VAdd(force, dampingForce)
        tooLarge == MagnitudeSquared(Vec(Div(totalForce.x, 1000),
                                         Div(totalForce.y, 1000))) > 100000000
    IN IF A = <<>> /\ B = <<>> THEN Solved(H, cons)
       ELSE IF currentDist < 1 THEN Solved(H, cons)
       ELSE IF tooLarge THEN Solved(H, cons)
       ELSE LET H1 == IF Dynamic(H, A) THEN ApplyForce(H, A[1], posA, totalForce)
                      ELSE H
                H2 == IF Dynamic(H1, B)
                      THEN ApplyForce(H1, B[1], posB, VNeg(totalForce)) ELSE H1
            IN Solved(H2, cons)

\* a pulley correction shared equally between the two bodies
PulleyMove_EqualShare(H, ref, other, n, len, diff, kH) ==
    IF ~Dynamic(H, ref) THEN H
    ELSE Translate(H, ref[1], Along(n, 0 - Div(diff * kH, 200), len))

\* one body of the pulley correction: toward its pulley point
PulleyMove(H, ref, other, n, len, diff, kH) ==
    IF ~Dynamic(H, ref) THEN H
    ELSE LET bid == ref[1]
             num == RatioNum(H, ref, other) * kH
             den == RatioDen(H, ref, other) * 100
             unit == IF len > 0 THEN n ELSE Zero
             corr == Along(unit, 0 - diff, len)
             correction == Vec(Div(corr.x * num, den), Div(corr.y * num, den))
             vel == H.bodies[bid].vel
             along == VDot(vel, unit)
         IN IF MagnitudeSquared(correction) < 2500
            THEN LET H1 == Translate(H, bid, correction)
                 IN IF along > 0
                    THEN SetVelocity(H1, bid, VSub(vel, Along(unit, along, 2 * len * len)))
                    ELSE H1
            ELSE H

_solveIdealPulley(H, cons, pulley) ==
    LET A == Resolve(H, pulley.bodyAId)
        B == Resolve(H, pulley.bodyBId)
        anchorA == AnchorPos(H, A, pulley.pointA)
        anchorB == AnchorPos(H, B, pulley.pointB)
        vecA == VSub(anchorA, pulley.pointC)
        vecB == VSub(anchorB, pulley.pointD)
        lenA == Magnitude(vecA)
        lenB == Magnitude(vecB)
        currentLen == lenA + lenB
        diff == currentLen - pulley.length
    IN IF A = <<>> /\ B = <<>> THEN Solved(H, cons)
       ELSE IF ~(currentLen > pulley.length) THEN Solved(H, cons)
       ELSE IF ~(Dynamic(H, A) \/ Dynamic(H, B)) THEN Solved(H, cons)
       ELSE LET kH == PbdK(pulley)
                H1 == PulleyMove(H, A, B, vecA, lenA, diff, kH)
                H2 == PulleyMove(H1, B, A, vecB, lenB, diff, kH)
            IN Solved(H2, cons)

\* ------------------------------------------------------------ the tick
Iterations == 10

\* what a solver call sees and does: the constraint, the distance of its two
\* ends beyond its length at the call, whether a body was changed, whether the
\* constraint list was changed
Stretch(H, c) ==
    Magnitude(VSub(AnchorPos(H, Resolve(H, c.bodyBId), c.pointB),
                   AnchorPos(H, Resolve(H, c.bodyAId), c.pointA)))
      - (IF c.length = Undef THEN 0 ELSE c.length)

LogEntry(phase, iter, c, before, after) ==
    [phase |-> phase, iter |-> iter, c |-> c, stretch |-> Stretch(before.H, c),
     changed |-> after.H # before.H, broke |-> after.cons # before.cons,
     acted |-> {bid \in DOMAIN before.H.bodies :
                   after.H.bodies[bid] # before.H.bodies[bid]}]

Run(S, phase, iter, c, R) ==
    [H |-> R.H, cons |-> R.cons,
     log |-> Append(S.log, LogEntry(phase, iter, c, S, R))]

\* the body of the first forEach of beforeUpdate, for one constraint
ForceStep(S, c) ==
    IF c.type = "friction" THEN S
    ELSE IF MissingBody(S.H, c) THEN S
    ELSE IF c.type = "spring" THEN
        Run(S, "force", 0, c, _solveSpring(S.H, S.cons, c))
    ELSE IF c.type = "ideal_rope" /\ c.isElastic THEN
        Run(S, "force", 0, c, _solveIdealRope(S.H, S.cons, c))
    ELSE IF c.type = "force" THEN
        LET A == Resolve(S.H, c.bodyAId)
        IN IF A # <<>>
           THEN Run(S, "force", 0, c,
                    Solved(ApplyForce(S.H, A[1], S.H.bodies[A[1]].pos, c.vector),
                           S.cons))
           ELSE S
    ELSE S

\* a position iteration that does not validate the bodies
PbdStep_NoValidation(S, iter, c) ==
    IF c.type = "ideal_rope" /\ ~c.isElastic THEN
        Run(S, "pbd", iter, c, _solveIdealRope(S.H, S.cons, c))
    ELSE IF c.type = "pulley" THEN
        Run(S, "pbd", iter, c, _solveIdealPulley(S.H, S.cons, c))
    ELSE S

\* the body of the forEach of one position iteration, for one constraint
PbdStep(S, iter, c) ==
    IF MissingBody(S.H, c) THEN S
    ELSE IF c.type = "ideal_rope" /\ ~c.isElastic THEN
        Run(S, "pbd", iter, c, _solveIdealRope(S.H, S.cons, c))
    ELSE IF c.type = "pulley" THEN
        Run(S, "pbd", iter, c, _solveIdealPulley(S.H, S.cons, c))
    ELSE S

\* forEach over the array as it was when the loop started
RECURSIVE ForceEach(_, _, _)
ForceEach(S, arr, i) ==
    IF i > Len(arr) THEN S ELSE ForceEach(ForceStep(S, arr[i]), arr, i + 1)

RECURSIVE PbdEach(_, _, _, _)
PbdEach(S, iter, arr, i) ==
    IF i > Len(arr) THEN S
    ELSE PbdEach(PbdStep(S, iter, arr[i]), iter, arr, i + 1)

\* a single position pass
PbdLoop_Once(S, iter) == PbdEach(S, iter, S.cons, 1)

RECURSIVE PbdLoop(_, _)
PbdLoop(S, iter) ==
    IF iter > Iterations THEN S
    ELSE PbdLoop(PbdEach(S, iter, S.cons, 1), iter + 1)

\* a solver that works on the list but leaves the stored list as it was
beforeUpdate_KeepsList(H, cons) ==
    [PbdLoop(ForceEach([H |-> H, cons |-> cons, log |-> <<>>], cons, 1), 1)
        EXCEPT !.cons = cons]

\* the beforeUpdate handler: force pass, then the position iterations
beforeUpdate(H, cons) ==
    PbdLoop(ForceEach([H |-> H, cons |-> cons, log |-> <<>>], cons, 1), 1)

\* the engine's integration of one body: air friction, gravity, force, then
\* position; forces are cleared
BodyUpdate(b, g) ==
    IF b.isStatic THEN [b EXCEPT !.force = Zero, !.torque = 0]
    ELSE LET v == Vec(Div(b.vel.x * (100 - b.frictionAir), 100) + g.x
                          + Div(b.force.x * 10, b.mass),
                      Div(b.vel.y * (100 - b.frictionAir), 100) + g.y
                          + Div(b.force.y * 10, b.mass))
         IN [b EXCEPT !.vel = v, !.pos = VAdd(b.pos, v),
                      !.force = Zero, !.torque = 0]

EngineUpdate(H, g) ==
    [H EXCEPT !.bodies = [bid \in DOMAIN H.bodies |->
        IF bid \in H.world THEN BodyUpdate(H.bodies[bid], g) ELSE H.bodies[bid]]]

\* the saved state as its holder reads it: restoreState stores the state's
\* sceneData object and constraint array themselves, so while they are shared
\* the holder sees what the store holds
Saved ==
    [sceneData |-> IF sharesData THEN sceneData ELSE history[1].sceneData,
     customConstraints |-> IF sharesList THEN customConstraints
                           ELSE history[1].customConstraints,
     gravity |-> history[1].gravity]

\* the history once the store's constraint array is replaced by a new array
ListReplaced == IF history # <<>> /\ sharesList THEN <<Saved>> ELSE history

\* the afterUpdate handler.  The trajectory store is <<>> while it was never
\* assigned and <<paths>> afterwards; reading a path of the unassigned store
\* throws.  A point is pushed when the body is more than 10px from the last
\* point, and the oldest is dropped beyond 500 points.
ShowsTrajectory(sd, H, id) ==
    /\ HasBody(H, id)
    /\ id \in DOMAIN sd
    /\ "showTrajectory" \in DOMAIN sd[id]
    /\ sd[id].showTrajectory

RecordPoint(path, p) ==
    IF path = <<>> \/ MagnitudeSquared(VSub(path[Len(path)], p)) > 100
    THEN (IF Len(path) + 1 > 500 THEN Tail(Append(path, p)) ELSE Append(path, p))
    ELSE path

afterUpdate(tr, sd, H) ==
    LET ids == {id \in DOMAIN H.entities : ShowsTrajectory(sd, H, id)}
    IN IF ids = {} THEN [trajectories |-> tr, thrown |-> FALSE]
       ELSE IF tr = <<>> THEN [trajectories |-> tr, thrown |-> TRUE]
       ELSE [trajectories |->
                <<[id \in DOMAIN tr[1] \cup ids |->
                      IF id \in ids
                      THEN RecordPoint(IF id \in DOMAIN tr[1] THEN tr[1][id] ELSE <<>>,
                                       BodyOf(H, id).pos)
                      ELSE tr[1][id]]>>,
             thrown |-> FALSE]

\* an engine step that also writes the positions back to the scene data
tick_Syncing(limit) ==
    LET S == beforeUpdate(HeapNow, customConstraints)
        H2 == EngineUpdate(S.H, gravity)
        A == afterUpdate(trajectories, sceneData, H2)
    IN /\ tickCount < limit
       /\ SetHeap(H2)
       /\ sceneData' = syncToSceneData(sceneData, H2, currentViewMode)
       /\ customConstraints' = S.cons
       /\ solveLog' = S.log
       /\ tickCount' = tickCount + 1
       /\ pairs' = <<>>
       /\ trajectories' = A.trajectories
       /\ thrown' = (thrown \/ A.thrown)
       /\ history' = IF S.cons # customConstraints THEN ListReplaced ELSE history
       /\ sharesList' = (sharesList /\ S.cons = customConstraints)
       /\ last' = Last("tick", NoId, 0, <<>>)
       /\ UNCHANGED <<currentViewMode, gravity, globalAirResistance,
                      updateCount, sharesData>>

\* Engine.update: beforeUpdate, the integration, afterUpdate
tick(limit) ==
    LET S == beforeUpdate(HeapNow, customConstraints)
        H2 == EngineUpdate(S.H, gravity)
        A == afterUpdate(trajectories, sceneData, H2)
    IN /\ tickCount < limit
       /\ SetHeap(H2)
       /\ customConstraints' = S.cons
       /\ solveLog' = S.log
       /\ tickCount' = tickCount + 1
       /\ pairs' = <<>>
       /\ trajectories' = A.trajectories
       /\ thrown' = (thrown \/ A.thrown)
       /\ history' = IF S.cons # customConstraints THEN ListReplaced ELSE history
       /\ sharesList' = (sharesList /\ S.cons = customConstraints)
       /\ last' = Last("tick", NoId, 0, <<>>)
       /\ UNCHANGED <<sceneData, currentViewMode, gravity, globalAirResistance,
                      updateCount, sharesData>>

\* -------------------------------------------------------------- connectors
AddConstraintWith(c, op, arg) ==
    /\ Len(customConstraints) < MaxConstraints
    /\ customConstraints' = Append(customConstraints, c)
    /\ last' = Last(op, c.id, arg, <<>>)
    /\ UNCHANGED <<sceneData, entities, bodies, world, nextBid, currentViewMode,
                   gravity, globalAirResistance, tickCount, updateCount, solveLog, pairs, keptVars>>

AddConstraint(c, op) == AddConstraintWith(c, op, 0)

createIdealRope(id, a, b, pA, pB, len, maxF, el) ==
    AddConstraint(Connector(id, "ideal_rope", a, b, pA, pB, len, maxF, el, 50),
                  "createIdealRope")

createSpring(id, a, b, pA, pB, len) ==
    AddConstraint([Connector(id, "spring", a, b, pA, pB, len, Undef, FALSE, 1)
                     EXCEPT !.damping = 10],
                  "createSpring")

createPulley(id, a, b, pC, pD, len) ==
    AddConstraint([Connector(id, "pulley", a, b, Zero, Zero,
                             IF Truthy(len) THEN len ELSE 200, Undef, FALSE, 100)
                     EXCEPT !.pointC = pC, !.pointD = pD],
                  "createPulley")

createForce(id, bodyId, vector) ==
    AddConstraint([Connector(id, "force", bodyId, NoId, Zero, Zero, Undef,
                             Undef, FALSE, Undef)
                     EXCEPT !.vector = vector],
                  "createForce")

createFrictionConstraint(id, a, b, f) ==
    AddConstraintWith([Connector(id, "friction", a, b, Zero, Zero, Undef, Undef,
                                 FALSE, Undef)
                         EXCEPT !.friction = IF Truthy(f) THEN f ELSE 10],
                      "createFrictionConstraint", f)

\* ----------------------------------------------------- pointer interaction
InteractionId(bodyId) == "interaction-" \o bodyId

\* createInteractionConstraint: nothing without a body; otherwise the old
\* constraint of that id is filtered out and a spring is pushed that holds
\* the body itself (bodyA) and no body id
createInteractionConstraint(bodyId, point) ==
    LET body == BodyOf(HeapNow, bodyId)
        offsetLocal == Rotate(VSub(point, body.pos), 0 - body.angle)
        c == [Connector(InteractionId(bodyId), "spring", NoId, NoId, offsetLocal,
                        point, 0, Undef, FALSE, 10)
                 EXCEPT !.damping = 10]
             @@ [bodyA |-> entities[bodyId]]
        kept == _removeConstraint(customConstraints, InteractionId(bodyId))
    IN /\ HasBody(HeapNow, bodyId) => Len(kept) < MaxConstraints
       /\ customConstraints' = IF HasBody(HeapNow, bodyId) THEN Append(kept, c)
                               ELSE customConstraints
       /\ history' = IF HasBody(HeapNow, bodyId) THEN ListReplaced ELSE history
       /\ sharesList' = (sharesList /\ ~HasBody(HeapNow, bodyId))
       /\ last' = Last("createInteractionConstraint", bodyId, point, <<>>)
       /\ UNCHANGED <<sceneData, entities, bodies, world, nextBid, currentViewMode,
                      gravity, globalAirResistance, tickCount, updateCount,
                      solveLog, pairs, trajectories, thrown, sharesData>>

\* updateInteractionConstraint: the pointer point of the first constraint of
\* that id
updateInteractionConstraint(constraintId, point) ==
    LET found == {i \in 1..Len(customConstraints) :
                     customConstraints[i].id = constraintId}
        first == CHOOSE i \in found : \A j \in found : i <= j
    IN /\ customConstraints' = IF found = {} THEN customConstraints
                               ELSE [customConstraints EXCEPT ![first].pointB = point]
       /\ last' = Last("updateInteractionConstraint", constraintId, point, <<>>)
       /\ UNCHANGED <<sceneData, entities, bodies, world, nextBid, currentViewMode,
                      gravity, globalAirResistance, tickCount, updateCount,
                      solveLog, pairs, keptVars>>

removeInteractionConstraint(constraintId) ==
    /\ customConstraints' = _removeConstraint(customConstraints, constraintId)
    /\ history' = ListReplaced
    /\ sharesList' = FALSE
    /\ last' = Last("removeInteractionConstraint", constraintId, 0, <<>>)
    /\ UNCHANGED <<sceneData, entities, bodies, world, nextBid, currentViewMode,
                   gravity, globalAirResistance, tickCount, updateCount,
                   solveLog, pairs, trajectories, thrown, sharesData>>

\* ------------------------------------------------------- collision events
\* createConveyorBelt: a static Conveyor object that records its speed under
\* the key speed
createConveyorBelt(id, x, y, w, h, speed) ==
    createObject(id, [SceneObject(id, "Conveyor", x, y, w, h, TRUE, FALSE)
                        EXCEPT !.mass = Undef]
                     @@ [speed |-> speed])

\* a pair of the engine's collision event as the engine hands it over: the
\* two bodies, the smaller of their frictions, the static friction 0.5 and
\* the active contacts
EnginePair(H, bidA, bidB, contacts) ==
    [bodyA |-> bidA, bodyB |-> bidB,
     friction |-> Min(H.bodies[bidA].friction, H.bodies[bidB].friction),
     frictionStatic |-> 50, contacts |-> contacts]

\* frictionConstraints.find: the first friction constraint between the two
\* ids in either order, <<>> when there is none
FindFriction(cons, idA, idB) ==
    LET hit == {i \in 1..Len(cons) :
                  /\ cons[i].type = "friction"
                  /\ \/ cons[i].bodyAId = idA /\ cons[i].bodyBId = idB
                     \/ cons[i].bodyAId = idB /\ cons[i].bodyBId = idA}
    IN IF hit = {} THEN <<>>
       ELSE <<cons[CHOOSE i \in hit : \A j \in hit : i <= j]>>

\* part A of handleCollisions for one pair
FrictionOverride(cons, pair, idA, idB) ==
    LET c == FindFriction(cons, idA, idB)
    IN IF c # <<>>
       THEN [pair EXCEPT !.friction = c[1].friction,
                         !.frictionStatic = c[1].friction]
       ELSE pair

\* conveyorData.conveyorSpeed || 5
BeltSpeed(conveyorData) ==
    IF Has(conveyorData, "conveyorSpeed") /\ Truthy(conveyorData.conveyorSpeed)
    THEN conveyorData.conveyorSpeed ELSE 5

\* the belt direction of a conveyor body
BeltDir(conveyorBody) == Rotate(Vec(1, 0), conveyorBody.angle)

\* the conveyor force on the target body, in hundredths:
\* -diff * 0.5 * mass * (friction > 0 ? friction : 0.1) along the belt
ConveyorForceMag(conveyorData, conveyorBody, targetBody) ==
    LET diff == VDot(targetBody.vel, BeltDir(conveyorBody)) - BeltSpeed(conveyorData)
        friction == conveyorBody.friction * targetBody.friction
        grip == IF friction > 0 THEN friction ELSE 1000
    IN Div(0 - diff * targetBody.mass * grip, 200000)

\* the average contact vertex, the body position when there is no contact
ContactPoint(pair, targetBody) ==
    LET n == Len(pair.contacts)
        RECURSIVE Sum(_)
        Sum(i) == IF i = 0 THEN Zero ELSE VAdd(Sum(i - 1), pair.contacts[i])
    IN IF n > 0 THEN Vec(Div(Sum(n).x, n), Div(Sum(n).y, n)) ELSE targetBody.pos

\* part B of handleCollisions for one pair
ConveyorPush(sd, H, pair, idA, idB) ==
    LET isA == idA \in DOMAIN sd /\ sd[idA].type = "Conveyor"
        isB == idB \in DOMAIN sd /\ sd[idB].type = "Conveyor"
        conveyor == IF isA THEN pair.bodyA ELSE pair.bodyB
        target == IF isA THEN pair.bodyB ELSE pair.bodyA
        data == IF isA THEN sd[idA] ELSE sd[idB]
    IN IF (isA \/ isB) /\ ~H.bodies[target].isStatic
       THEN LET mag == ConveyorForceMag(data, H.bodies[conveyor], H.bodies[target])
                dir == BeltDir(H.bodies[conveyor])
            IN ApplyForce(H, target, ContactPoint(pair, H.bodies[target]),
                          Vec(dir.x * mag, dir.y * mag))
       ELSE H

\* the body of pairs.forEach
HandlePair(sd, cons, S, pair) ==
    LET idA == S.H.bodies[pair.bodyA].label
        idB == S.H.bodies[pair.bodyB].label
    IN IF idA = NoId \/ idB = NoId
       THEN [S EXCEPT !.pairs = Append(S.pairs, pair)]
       ELSE [H |-> ConveyorPush(sd, S.H, pair, idA, idB),
             pairs |-> Append(S.pairs, FrictionOverride(cons, pair, idA, idB))]

RECURSIVE HandleEach(_, _, _, _, _)
HandleEach(sd, cons, S, ps, i) ==
    IF i > Len(ps) THEN S
    ELSE HandleEach(sd, cons, HandlePair(sd, cons, S, ps[i]), ps, i + 1)

\* the collisionStart / collisionActive handler on the pairs of one event
handleCollisions(ps) ==
    LET S == HandleEach(sceneData, customConstraints,
                        [H |-> HeapNow, pairs |-> <<>>], ps, 1)
    IN /\ ps # <<>>
       /\ SetHeap(S.H)
       /\ pairs' = S.pairs
       /\ last' = Last("handleCollisions", NoId, 0, ps)
       /\ UNCHANGED <<sceneData, currentViewMode, gravity, globalAirResistance,
                      customConstraints, tickCount, updateCount, solveLog,
                      keptVars>>

\* ---------------------------------------------------------------- cutting
\* body.vertices, for the rectangles and the cut pieces
BodyVertices(b) ==
    LET local == CASE b.kind = "rect" ->
                        <<Vec(0 - Div(b.w, 2), 0 - Div(b.h, 2)),
                          Vec(b.w - Div(b.w, 2), 0 - Div(b.h, 2)),
                          Vec(b.w - Div(b.w, 2), b.h - Div(b.h, 2)),
                          Vec(0 - Div(b.w, 2), b.h - Div(b.h, 2))>>
                   [] b.kind = "cpoly" -> b.local
    IN [i \in 1..Len(local) |-> VAdd(b.pos, Rotate(local[i], b.angle))]

\* 0 <= num / denom <= 1
InUnit(num, denom) ==
    IF denom > 0 THEN 0 <= num /\ num <= denom ELSE denom <= num /\ num <= 0

\* _getLineIntersection of the segments p1 p2 and p3 p4: <<point>> or <<>>
_getLineIntersection(p1, p2, p3, p4) ==
    LET denom == (p4.y - p3.y) * (p2.x - p1.x) - (p4.x - p3.x) * (p2.y - p1.y)
        numA == (p4.x - p3.x) * (p1.y - p3.y) - (p4.y - p3.y) * (p1.x - p3.x)
        numB == (p2.x - p1.x) * (p1.y - p3.y) - (p2.y - p1.y) * (p1.x - p3.x)
    IN IF denom = 0 THEN <<>>
       ELSE IF InUnit(numA, denom) /\ InUnit(numB, denom)
       THEN <<Vec(p1.x + Div(numA * (p2.x - p1.x), denom),
                  p1.y + Div(numA * (p2.y - p1.y), denom))>>
       ELSE <<>>

\* the intersections of the cut with the edges of an outline, by edge index
\* (edge i runs from vertex i to vertex i + 1, counted from 0)
RECURSIVE IntersectionsUpto(_, _, _, _)
IntersectionsUpto(vs, p1, p2, n) ==
    IF n = 0 THEN <<>>
    ELSE LET hit == _getLineIntersection(p1, p2, vs[n], After(vs, n))
             rest == IntersectionsUpto(vs, p1, p2, n - 1)
         IN IF hit # <<>>
            THEN Append(rest, [point |-> hit[1], index |-> n - 1])
            ELSE rest
Intersections(vs, p1, p2) == IntersectionsUpto(vs, p1, p2, Len(vs))

\* a loop A that takes the vertices up to the one before the second cut edge
VerticesA_Short(vs, int1, int2) ==
    <<int1.point>>
      \o [k \in 1..(int2.index - int1.index - 1) |->
             vs[((int1.index + k) % Len(vs)) + 1]]
      \o <<int2.point>>

\* Part A: the first cut point, the vertices int1.index + 1 .. int2.index, the
\* second cut point
VerticesA(vs, int1, int2) ==
    <<int1.point>>
      \o [k \in 1..(int2.index - int1.index) |->
             vs[((int1.index + k) % Len(vs)) + 1]]
      \o <<int2.point>>

\* Part B: the second cut point, the vertices after int2.index around to
\* int1.index, the first cut point
VerticesB(vs, int1, int2) ==
    <<int2.point>>
      \o [k \in 1..(Len(vs) + int1.index - int2.index) |->
             vs[((int2.index + k) % Len(vs)) + 1]]
      \o <<int1.point>>

\* a record with the field f set to v, added if it is not there
With(r, f, v) == [k \in DOMAIN r \cup {f} |-> IF k = f THEN v ELSE r[k]]

\* where createPart puts a piece: the centroid moved 2px off the cut line
PartPosition(verts, p1, p2) ==
    LET centroid == Centre(verts)
        dx == p2.x - p1.x
        dy == p2.y - p1.y
        len == Magnitude(Vec(dx, dy))
        dot == (centroid.y - p1.y) * dx - (centroid.x - p1.x) * dy
        shift == IF dot >= 0 THEN 2 ELSE 0 - 2
    IN IF len > 0
       THEN Vec(centroid.x + Div((0 - dy) * shift, len),
                centroid.y + Div(dx * shift, len))
       ELSE centroid

\* a piece recorded with the vertices where they are in the world
PartData_Absolute(data, verts, suffix, p1, p2) ==
    LET at == PartPosition(verts, p1, p2)
    IN With([data EXCEPT !.id = data.id \o suffix, !.type = "Polygon",
                         !.x = at.x, !.y = at.y, !.isStatic = FALSE],
            "customVertices", verts)

\* the SceneObject createPart records for a piece
PartData(data, verts, suffix, p1, p2) ==
    LET at == PartPosition(verts, p1, p2)
    IN With([data EXCEPT !.id = data.id \o suffix, !.type = "Polygon",
                         !.x = at.x, !.y = at.y, !.isStatic = FALSE],
            "customVertices", Relative(verts, Centre(verts)))

\* the body createPart builds for a piece: a dynamic polygon with the
\* engine's defaults (friction 0.1, air friction 0.01) and half the mass
PartBody(data, verts, suffix, p1, p2, bid) ==
    [bid |-> bid, label |-> data.id \o suffix, kind |-> "cpoly",
     pos |-> PartPosition(verts, p1, p2), vel |-> Zero, force |-> Zero,
     torque |-> 0, angle |-> 0, w |-> Undef, h |-> Undef, isStatic |-> FALSE,
     isPointMass |-> FALSE, local |-> FromVertices(verts),
     mass |-> IF Truthy(data.mass) THEN data.mass * 500
              ELSE Abs(Area2(verts)) \div 2,
     friction |-> 10, frictionAir |-> 1]

\* createPart on the scene S = [H, sd]
createPart(S, data, verts, suffix, p1, p2) ==
    LET newId == data.id \o suffix
        bid == S.H.nextBid
    IN [H |-> Heap([b \in DOMAIN S.H.bodies \cup {bid} |->
                      IF b = bid THEN PartBody(data, verts, suffix, p1, p2, bid)
                      ELSE S.H.bodies[b]],
                   [i \in DOMAIN S.H.entities \cup {newId} |->
                      IF i = newId THEN bid ELSE S.H.entities[i]],
                   S.H.world \cup {bid},
                   bid + 1),
        sd |-> [i \in DOMAIN S.sd \cup {newId} |->
                  IF i = newId THEN PartData(data, verts, suffix, p1, p2)
                  ELSE S.sd[i]]]

\* a slicer that slices a body whatever the number of intersections is,
\* between the first and the last of them
_sliceBody_AnyCount(S, bid, p1, p2, data) ==
    LET vs == BodyVertices(S.H.bodies[bid])
        ints == Intersections(vs, p1, p2)
    IN IF Len(ints) < 1 THEN S
       ELSE LET S0 == [H |-> RemoveBody(S.H, data.id), sd |-> RemoveData(S.sd, data.id)]
                S1 == createPart(S0, data, VerticesA(vs, ints[1], ints[Len(ints)]),
                                 "_A", p1, p2)
            IN createPart(S1, data, VerticesB(vs, ints[1], ints[Len(ints)]),
                          "_B", p1, p2)

\* _sliceBody on the scene S = [H, sd]
_sliceBody(S, bid, p1, p2, data) ==
    LET vs == BodyVertices(S.H.bodies[bid])
        ints == Intersections(vs, p1, p2)
    IN IF Len(ints) # 2 THEN S
       ELSE LET S0 == [H |-> RemoveBody(S.H, data.id), sd |-> RemoveData(S.sd, data.id)]
                S1 == createPart(S0, data, VerticesA(vs, ints[1], ints[2]), "_A", p1, p2)
            IN createPart(S1, data, VerticesB(vs, ints[1], ints[2]), "_B", p1, p2)

\* the projections of two outlines on an axis overlap by more than nothing
Perp(v) == Vec(0 - v.y, v.x)
SetMax(S) == CHOOSE m \in S : \A n \in S : n <= m
SetMin(S) == CHOOSE m \in S : \A n \in S : m <= n
Projection(vs, axis) == {VDot(vs[i], axis) : i \in 1..Len(vs)}
Overlaps(A, B, axis) ==
    /\ SetMax(Projection(A, axis)) > SetMin(Projection(B, axis))
    /\ SetMax(Projection(B, axis)) > SetMin(Projection(A, axis))

\* Query.ray: the separating-axis test of the body against the segment as a
\* rectangle of no width, on the axes of both; touching is not a hit
RayHits(b, p1, p2) ==
    LET vs == BodyVertices(b)
        axes == {Perp(VSub(After(vs, i), vs[i])) : i \in 1..Len(vs)}
                  \cup {VSub(p2, p1), Perp(VSub(p2, p1))}
    IN \A axis \in axes : Overlaps(<<p1, p2>>, vs, axis)

\* the non-static bodies of the world the cut hits
HitBodies(H, p1, p2) ==
    {bid \in H.world : ~H.bodies[bid].isStatic /\ RayHits(H.bodies[bid], p1, p2)}

\* hitBodies.forEach, in the order of the world
RECURSIVE SliceEach(_, _, _, _)
SliceEach(S, hit, p1, p2) ==
    IF hit = {} THEN S
    ELSE LET bid == CHOOSE b \in hit : \A c \in hit : b <= c
             id == S.H.bodies[bid].label
         IN SliceEach(IF id \in DOMAIN S.sd
                      THEN _sliceBody(S, bid, p1, p2, S.sd[id]) ELSE S,
                      hit \ {bid}, p1, p2)

cutObject(p1, p2) ==
    LET S == SliceEach([H |-> HeapNow, sd |-> sceneData],
                       HitBodies(HeapNow, p1, p2), p1, p2)
    IN /\ S.H.nextBid <= MaxCutBodies + 1
       /\ SetHeap(Collect(S.H))
       /\ sceneData' = S.sd
       /\ last' = Last("cutObject", NoId, <<p1, p2>>, <<>>)
       /\ UNCHANGED <<currentViewMode, gravity, globalAirResistance,
                      customConstraints, tickCount, updateCount, solveLog, pairs, keptVars>>

\* --------------------------------------------------------------- snapshots
\* a constraint that holds a body object (the cyclic body.parent makes
\* JSON.stringify throw)
HoldsBody(cons) == \E i \in 1..Len(cons) : "bodyA" \in DOMAIN cons[i]

\* getState: copies of the scene data, the constraints and the gravity.  A
\* copy by JSON drops the keys whose value is undefined; here an undefined
\* field is Undef and a dropped key reads as Undef, so the copy is the value.
getState ==
    [sceneData |-> sceneData, customConstraints |-> customConstraints,
     gravity |-> gravity]

\* pushHistory of the editor: the state is kept by the caller
pushHistory ==
    /\ history' = IF HoldsBody(customConstraints) THEN history ELSE <<getState>>
    /\ thrown' = (thrown \/ HoldsBody(customConstraints))
    /\ sharesData' = (sharesData /\ HoldsBody(customConstraints))
    /\ sharesList' = (sharesList /\ HoldsBody(customConstraints))
    /\ last' = Last("pushHistory", NoId, 0, <<>>)
    /\ UNCHANGED <<sceneData, entities, bodies, world, nextBid, currentViewMode,
                   gravity, globalAirResistance, customConstraints, tickCount,
                   updateCount, solveLog, pairs, trajectories>>

\* the history once the store's sceneData and constraint array are replaced
Replaced == IF history # <<>> THEN <<Saved>> ELSE history

clear ==
    /\ SetHeap(Heap(<<>>, <<>>, {}, nextBid))
    /\ sceneData' = <<>>
    /\ customConstraints' = <<>>
    /\ trajectories' = << <<>> >>
    /\ pairs' = <<>>
    /\ history' = Replaced
    /\ sharesData' = FALSE
    /\ sharesList' = FALSE
    /\ last' = Last("clear", NoId, 0, <<>>)
    /\ UNCHANGED <<currentViewMode, gravity, globalAirResistance, tickCount,
                   updateCount, solveLog, thrown>>

\* restoreState(state) with the state the caller kept (handleUndo): clear,
\* the state's own sceneData and constraints become the store's, the gravity
\* is copied, then rebuildWorld (which sets gravity.y for the view)
restoreState ==
    LET state == Saved
    IN /\ history # <<>>
       /\ nextBid + Cardinality(DOMAIN state.sceneData) <= MaxBodies + 1
       /\ sceneData' = state.sceneData
       /\ customConstraints' = state.customConstraints
       /\ gravity' = RebuildGravity(state.gravity, currentViewMode)
       /\ SetHeap(rebuildWorld(HeapNow, state.sceneData, currentViewMode,
                               globalAirResistance))
       /\ trajectories' = << <<>> >>
       /\ pairs' = <<>>
       /\ history' = <<state>>
       /\ sharesData' = TRUE
       /\ sharesList' = TRUE
       /\ last' = Last("restoreState", NoId, 0, state)
       /\ UNCHANGED <<currentViewMode, globalAirResistance, tickCount,
                      updateCount, solveLog, thrown>>

\* ------------------------------------------------------------ specification
\* the types each id is created with
TypesOf(id) == IF id = "a" THEN {"Box", "Incline", "Trapezoid"} ELSE {"Cone"}
Sizes == {120}
YOf(id) == IF id = "a" THEN 100 ELSE 300
Modes == {"side", "top"}

CreateObjectStep ==
    \E id \in Ids \ DOMAIN sceneData, h \in Sizes, pm \in BOOLEAN :
      \E type \in TypesOf(id) :
        createObject(id, SceneObject(id, type, 100, YOf(id), 120, h, FALSE, pm))
UpdateObjectStep == \E id \in Ids, k \in 1..Len(UpdateSeq) : updateObject(id, k)
RemoveObjectStep == \E id \in Ids : removeObject(id)
CIdSeq == <<"c1", "c2", "c3", "c4">>
ConstraintIds(cons) == {cons[i].id : i \in 1..Len(cons)}
\* the first connector id not in use
FreshCid ==
    CIdSeq[CHOOSE i \in 1..Len(CIdSeq) :
              /\ CIdSeq[i] \notin ConstraintIds(customConstraints)
              /\ \A j \in 1..(i - 1) : CIdSeq[j] \in ConstraintIds(customConstraints)]
CreateForceStep == createForce(FreshCid, "a", Vec(100, 0))
TickStep == tick(MaxTicks)
SetViewModeStep == \E mode \in Modes : setViewMode(mode)

Next ==
    \/ CreateObjectStep
    \/ UpdateObjectStep
    \/ RemoveObjectStep
    \/ SetViewModeStep
    \/ TickStep

Spec == Init /\ [][Next]_vars

\* the solver specification: two boxes, a above b, and connectors between a
\* and a fixed point above it or between a and b
MaxForces == {Undef, 20, 100, 600}
FixedPoint == Vec(100, 0)

SolverCreateObjectStep ==
    \E id \in Ids \ DOMAIN sceneData :
        createObject(id, SceneObject(id, "Box", 100, YOf(id), 120, 120, FALSE, FALSE))
CreateIdealRopeStep ==
    \E maxF \in MaxForces, el \in BOOLEAN :
        createIdealRope(FreshCid, "a", NoId, Zero, FixedPoint, 50, maxF, el)
CreateSpringStep == createSpring(FreshCid, "a", "b", Zero, Zero, 100)
CreatePulleyStep ==
    createPulley(FreshCid, "a", "b", Vec(100, 0), Vec(100, 200), 150)
CreateFrictionStep == createFrictionConstraint(FreshCid, "a", "b", 50)
SolverTickStep == tick(SolverTicks)

SolverNext ==
    \/ SolverCreateObjectStep
    \/ CreateIdealRopeStep
    \/ CreateSpringStep
    \/ CreatePulleyStep
    \/ CreateForceStep
    \/ CreateFrictionStep
    \/ SolverTickStep

SolverSpec == Init /\ [][SolverNext]_vars

\* the store specification: two boxes, a spring between them, and the three
\* store operations interleaved with ticks
StoreNext ==
    \/ SolverCreateObjectStep
    \/ UpdateObjectStep
    \/ RemoveObjectStep
    \/ CreateSpringStep
    \/ TickStep

StoreSpec == Init /\ [][StoreNext]_vars

\* the rope specification: one box a, in the side view below a fixed point or
\* in the top view (no gravity) beside it, and ropes of several lengths from a
\* to the fixed point, one of each kind, tied before the simulation runs
RopeLengths == {100, 400}
RopeDepths == {150, 300}

RopeCreateObjectStep ==
    \E z \in RopeDepths :
        /\ "a" \notin DOMAIN sceneData
        /\ createObject("a", [SceneObject("a", "Box", 100, 150, 120, 120, FALSE, FALSE)
                                EXCEPT !.z = z])
RopeCreateRopeStep ==
    \E len \in RopeLengths, el \in BOOLEAN :
        /\ tickCount = 0
        /\ \A i \in 1..Len(customConstraints) :
              ~(customConstraints[i].length = len /\ customConstraints[i].isElastic = el)
        /\ createIdealRope(FreshCid, "a", NoId, Zero, FixedPoint, len, Undef, el)
RopeTickStep == tick(RopeTicks)

RopeNext ==
    \/ RopeCreateObjectStep
    \/ RopeCreateRopeStep
    \/ SetViewModeStep
    \/ RopeTickStep

RopeSpec == Init /\ [][RopeNext]_vars

\* the pulley specification: box a of mass 2 below the pulley point (200, 0)
\* and box b of mass 1 below the pulley point (600, 0), of the same size, a
\* pulley of length 600 over both points, gravity 3; the ticks run on the
\* complete scene
PulleyHeights == {300, 320, 400}
PulleyGravity == Vec(0, 3)
PulleyX(id) == IF id = "a" THEN 200 ELSE 600
PulleyMass(id) == IF id = "a" THEN 2 ELSE 1

PulleyCreateObjectStep ==
    \E id \in Ids \ DOMAIN sceneData, y \in PulleyHeights :
        createObject(id, [SceneObject(id, "Box", PulleyX(id), y, 40, 40, FALSE, FALSE)
                            EXCEPT !.mass = PulleyMass(id)])
PulleyCreatePulleyStep ==
    /\ customConstraints = <<>>
    /\ createPulley(FreshCid, "a", "b", Vec(PulleyX("a"), 0), Vec(PulleyX("b"), 0), 600)
PulleyGravityStep ==
    /\ gravity # PulleyGravity
    /\ setEngineProperties([gravity |-> PulleyGravity])
PulleyTickStep ==
    /\ DOMAIN entities = Ids /\ customConstraints # <<>> /\ gravity = PulleyGravity
    /\ tick(PulleyTicks)

PulleyNext ==
    \/ PulleyCreateObjectStep
    \/ PulleyCreatePulleyStep
    \/ PulleyGravityStep
    \/ PulleyTickStep

PulleySpec == Init /\ [][PulleyNext]_vars

\* the collision specification: box a (friction 0.5) on the conveyor b, a
\* friction constraint, a constant force along the belt that gives the box
\* its speeds, and one collision event of the two bodies per engine step
Frictions == {0, 30}
BeltSpeeds == {3, 5}
FrictionEnds == {<<"a", "b">>, <<"b", "a">>, <<"a", NoId>>}

CollisionCreateObjectStep ==
    /\ "a" \notin DOMAIN sceneData
    /\ createObject("a", [SceneObject("a", "Box", 200, 470, 40, 40, FALSE, FALSE)
                            EXCEPT !.friction = 50])
CreateConveyorBeltStep ==
    \E speed \in BeltSpeeds :
        /\ "b" \notin DOMAIN sceneData
        /\ createConveyorBelt("b", 400, 500, 600, 20, speed)
CollisionCreateFrictionStep ==
    \E e \in FrictionEnds, f \in Frictions :
        /\ \A i \in 1..Len(customConstraints) : customConstraints[i].type # "friction"
        /\ createFrictionConstraint(FreshCid, e[1], e[2], f)
CollisionCreateForceStep ==
    /\ \A i \in 1..Len(customConstraints) : customConstraints[i].type # "force"
    /\ createForce(FreshCid, "a", Vec(100, 0))
HandleCollisionsStep ==
    \E x \in Ids, y \in Ids, touching \in BOOLEAN :
        /\ x # y /\ x \in DOMAIN entities /\ y \in DOMAIN entities
        /\ pairs = <<>>
        /\ handleCollisions(<<EnginePair(HeapNow, entities[x], entities[y],
                                         IF touching
                                         THEN <<VAdd(BodyOf(HeapNow, "a").pos, Vec(0, 20))>>
                                         ELSE <<>>)>>)
CollisionTickStep == tick(CollisionTicks)

CollisionNext ==
    \/ CollisionCreateObjectStep
    \/ CreateConveyorBeltStep
    \/ CollisionCreateFrictionStep
    \/ CollisionCreateForceStep
    \/ HandleCollisionsStep
    \/ CollisionTickStep

CollisionSpec == Init /\ [][CollisionNext]_vars

\* the cut specification: the 40 x 40 boxes a (dynamic) and b (dynamic or
\* static) of mass 2 side by side, cut by segments that cross both boxes,
\* cross a only, end inside b, or run through two corners of a
Cuts ==
    {<<Vec(60, 100), Vec(200, 100)>>,
     <<Vec(100, 60), Vec(100, 140)>>,
     <<Vec(60, 100), Vec(160, 100)>>,
     <<Vec(70, 70), Vec(130, 130)>>,
     <<Vec(60, 110), Vec(130, 110)>>}

CutCreateObjectStep ==
    \E id \in Ids \ DOMAIN sceneData, st \in BOOLEAN :
        /\ id = "a" => ~st
        /\ createObject(id, [SceneObject(id, "Box", IF id = "a" THEN 100 ELSE 160,
                                         100, 40, 40, st, FALSE)
                               EXCEPT !.mass = 2, !.z = 100, !.depth = 40])
CutObjectStep ==
    \E cut \in Cuts :
        /\ \A bid \in world : bodies[bid].kind \in {"rect", "cpoly"}
        /\ cutObject(cut[1], cut[2])

CutNext ==
    \/ CutCreateObjectStep
    \/ CutObjectStep
    \/ SetViewModeStep

CutSpec == Init /\ [][CutNext]_vars

\* the loop specification: an outline of n vertices and two cut edges
\* i1 < i2, then the two loops of the slicer
Outline(n) == [i \in 1..n |-> Vec(10 * i, 0)]
CutPoint(i) == [point |-> Vec(10 * i + 15, 1), index |-> i]

LoopInit ==
    \E n \in 3..MaxVertices, i1 \in 0..(MaxVertices - 1), i2 \in 0..(MaxVertices - 1) :
        /\ i1 < i2 /\ i2 <= n - 1
        /\ sceneData = <<>> /\ entities = <<>> /\ bodies = <<>> /\ world = {}
        /\ nextBid = 1 /\ currentViewMode = "side" /\ gravity = Vec(0, 1)
        /\ globalAirResistance = 0 /\ customConstraints = <<>>
        /\ tickCount = 0 /\ updateCount = 0 /\ solveLog = <<>> /\ pairs = <<>>
        /\ trajectories = <<>> /\ thrown = FALSE /\ history = <<>>
        /\ sharesData = FALSE /\ sharesList = FALSE
        /\ last = Last("outline", NoId, <<n, i1, i2>>, <<>>)

LoopSliceStep ==
    /\ last.op = "outline"
    /\ last' = Last("loops", NoId, last.arg,
                    <<VerticesA(Outline(last.arg[1]), CutPoint(last.arg[2]),
                                CutPoint(last.arg[3])),
                      VerticesB(Outline(last.arg[1]), CutPoint(last.arg[2]),
                                CutPoint(last.arg[3]))>>)
    /\ UNCHANGED <<sceneData, entities, bodies, world, nextBid, currentViewMode,
                   gravity, globalAirResistance, customConstraints, tickCount,
                   updateCount, solveLog, pairs, keptVars>>

LoopNext == LoopSliceStep

LoopSpec == LoopInit /\ [][LoopNext]_vars

\* the history specification: a box, a rope from it to a fixed point that
\* breaks when stretched, a gravity other than the views' own, and the editor
\* saving a state and restoring it
HistoryGravity == Vec(0, 3)
HistoryBox ==
    [SceneObject("a", "Box", 100, 100, 40, 40, FALSE, FALSE)
        EXCEPT !.mass = 2, !.z = 100, !.depth = 40]

HistoryCreateObjectStep ==
    /\ "a" \notin DOMAIN sceneData
    /\ createObject("a", HistoryBox)
\* a move and a resize
HistoryUpdateObjectStep == \E k \in {2, 4} : updateObject("a", k)
HistoryRemoveObjectStep == "a" \in DOMAIN sceneData /\ removeObject("a")
HistoryRopeStep ==
    /\ customConstraints = <<>>
    /\ createIdealRope(FreshCid, "a", NoId, Zero, FixedPoint, 50, 1, FALSE)
HistoryGravityStep ==
    /\ gravity # HistoryGravity
    /\ setEngineProperties([gravity |-> HistoryGravity])
\* one state is saved, before the first update or tick
PushHistoryStep ==
    /\ history = <<>> /\ tickCount = 0 /\ updateCount = 0
    /\ pushHistory
RestoreStateStep == restoreState

HistoryNext ==
    \/ HistoryCreateObjectStep
    \/ HistoryUpdateObjectStep
    \/ HistoryRemoveObjectStep
    \/ SetViewModeStep
    \/ HistoryRopeStep
    \/ HistoryGravityStep
    \/ PushHistoryStep
    \/ RestoreStateStep
    \/ TickStep

HistorySpec == Init /\ [][HistoryNext]_vars

\* the world specification: a box whose id may be created again, updates,
\* a cut across the box, view switches, a saved state, restore and clear
WorldCreateObjectStep == createObject("a", HistoryBox)
WorldCutStep ==
    /\ \A bid \in world : bodies[bid].kind \in {"rect", "cpoly"}
    /\ cutObject(Vec(60, 100), Vec(130, 100))
WorldPushHistoryStep == history = <<>> /\ pushHistory
ClearStep == clear

WorldNext ==
    \/ WorldCreateObjectStep
    \/ HistoryUpdateObjectStep
    \/ HistoryRemoveObjectStep
    \/ SetViewModeStep
    \/ WorldCutStep
    \/ WorldPushHistoryStep
    \/ RestoreStateStep
    \/ ClearStep

WorldSpec == Init /\ [][WorldNext]_vars

\* the frame specification: a box that may ask for its trajectory, the belt
\* under it, a rope from the box to a fixed point, a rope that names a body
\* that does not exist, a spring whose two ends coincide, collision events,
\* engine steps, and the store operations between them
FrameCreateObjectStep ==
    \E show \in BOOLEAN :
        /\ "a" \notin DOMAIN sceneData
        /\ createObject("a", [SceneObject("a", "Box", 200, 470, 40, 40, FALSE, FALSE)
                                EXCEPT !.friction = 50]
                             @@ [showTrajectory |-> show])
FrameConstraintStep ==
    /\ customConstraints = <<>>
    /\ \/ createIdealRope(FreshCid, "a", NoId, Zero, Vec(200, 400), 50, Undef, FALSE)
       \/ createIdealRope(FreshCid, "a", "zz", Zero, Zero, 50, Undef, FALSE)
       \/ createSpring(FreshCid, "a", NoId, Zero, Vec(200, 470), 0)
FrameBeltStep ==
    /\ "b" \notin DOMAIN sceneData
    /\ createConveyorBelt("b", 400, 500, 600, 20, 5)
FrameCollisionStep ==
    /\ "a" \in DOMAIN entities /\ "b" \in DOMAIN entities
    /\ pairs = <<>>
    /\ handleCollisions(<<EnginePair(HeapNow, entities["a"], entities["b"],
                                     <<VAdd(BodyOf(HeapNow, "a").pos, Vec(0, 20))>>)>>)

FrameNext ==
    \/ FrameCreateObjectStep
    \/ FrameBeltStep
    \/ FrameConstraintStep
    \/ HistoryUpdateObjectStep
    \/ HistoryRemoveObjectStep
    \/ SetViewModeStep
    \/ ClearStep
    \/ FrameCollisionStep
    \/ TickStep

FrameSpec == Init /\ [][FrameNext]_vars

\* the grab specification: a box (its id may be created again), a rope from
\* it to a fixed point 100 above, the pointer grabbing the box, moving and
\* letting go, and rebuilds of the body by a view switch and a resize, before
\* an engine step
PointerPoints == {Vec(110, 100), Vec(150, 100)}

GrabCreateObjectStep == createObject("a", HistoryBox)
GrabRopeStep ==
    /\ \A i \in 1..Len(customConstraints) : customConstraints[i].type # "ideal_rope"
    /\ createIdealRope(FreshCid, "a", NoId, Zero, FixedPoint, 50, Undef, FALSE)
CreateInteractionStep ==
    /\ \A i \in 1..Len(customConstraints) :
          customConstraints[i].id # InteractionId("a")
    /\ createInteractionConstraint("a", Vec(110, 100))
UpdateInteractionStep ==
    \E point \in PointerPoints :
        /\ \E i \in 1..Len(customConstraints) :
              /\ customConstraints[i].id = InteractionId("a")
              /\ customConstraints[i].pointB # point
        /\ updateInteractionConstraint(InteractionId("a"), point)
RemoveInteractionStep ==
    /\ \E i \in 1..Len(customConstraints) :
          customConstraints[i].id = InteractionId("a")
    /\ removeInteractionConstraint(InteractionId("a"))

GrabNext ==
    \/ GrabCreateObjectStep
    \/ GrabRopeStep
    \/ CreateInteractionStep
    \/ UpdateInteractionStep
    \/ RemoveInteractionStep
    \/ HistoryUpdateObjectStep
    \/ SetViewModeStep
    \/ TickStep

GrabSpec == Init /\ [][GrabNext]_vars

\* the air specification: a box made static or dynamic, the global air
\* resistance set to 0.05 or 0.2, the box made dynamic, resized, and rebuilt
\* by a view switch
AirValues == {5, 20}

AirCreateObjectStep ==
    \E st \in BOOLEAN :
        /\ "a" \notin DOMAIN sceneData
        /\ createObject("a", [HistoryBox EXCEPT !.isStatic = st])
SetAirResistanceStep ==
    \E a \in AirValues :
        /\ globalAirResistance # a
        /\ setEngineProperties([airResistance |-> a])
MakeDynamicStep == updateObjectWith("a", [isStatic |-> FALSE], 0)
AirResizeStep == updateObject("a", 4)

AirNext ==
    \/ AirCreateObjectStep
    \/ SetAirResistanceStep
    \/ MakeDynamicStep
    \/ AirResizeStep
    \/ HistoryRemoveObjectStep
    \/ SetViewModeStep

AirSpec == Init /\ [][AirNext]_vars

\* the static specification: the box a and under a rope's length above it
\* the box b, each static or dynamic, or the belt b under a; one connector at
\* a time between a and b or between a and a fixed point (rope, elastic rope,
\* spring, pulley); collision events of a and b; an engine step
StaticCreateObjectStep ==
    \E id \in Ids \ DOMAIN sceneData, st \in BOOLEAN :
        createObject(id, [SceneObject(id, "Box", 200, IF id = "a" THEN 470 ELSE 300,
                                      40, 40, st, FALSE)
                            EXCEPT !.mass = IF id = "a" THEN 2 ELSE 1])
StaticConnectorStep ==
    /\ customConstraints = <<>>
    /\ \E other \in {"b", NoId}, el \in BOOLEAN :
          LET pB == IF other = NoId THEN Vec(200, 300) ELSE Zero
          IN \/ createIdealRope(FreshCid, "a", other, Zero, pB, 150, Undef, el)
             \/ createIdealRope(FreshCid, other, "a", pB, Zero, 150, Undef, el)
             \/ createSpring(FreshCid, "a", other, Zero, pB, 150)
             \/ (other # NoId /\ el
                   /\ createPulley(FreshCid, "a", "b", Vec(200, 400), Vec(200, 250), 100))

StaticNext ==
    \/ StaticCreateObjectStep
    \/ FrameBeltStep
    \/ StaticConnectorStep
    \/ FrameCollisionStep
    \/ TickStep

StaticSpec == Init /\ [][StaticNext]_vars

\* ------------------------------------------------------------------ claims
IsEmptyUpdate(k) == k \in 1..Len(UpdateSeq) /\ DOMAIN UpdateSeq[k] = {}
LiveBody(id) == bodies[entities[id]]

\* C1 (as stated): updateObject(id, {}) on an existing object leaves the live
\* body's position and velocity and every SceneObject field unchanged, in any
\* reachable state, also after ticks have moved the body.
C1_EmptyUpdateIsNoop ==
    [][(last'.op = "updateObject" /\ IsEmptyUpdate(last'.arg)
          /\ last'.id \in DOMAIN entities)
        => /\ sceneData' = sceneData
           /\ last'.id \in DOMAIN entities'
           /\ bodies'[entities'[last'.id]].pos = LiveBody(last'.id).pos
           /\ bodies'[entities'[last'.id]].vel = LiveBody(last'.id).vel]_vars

\* C2 (as stated): with no tick in between, switching side -> top -> side
\* leaves every object that had a live body with a live body under the same
\* id, at the same position (tolerance 0.5) and the same angle.
C2_ViewRoundTripKeepsBodies ==
    (last.op = "setViewMode" /\ last.arg = 2 /\ currentViewMode = "side")
    => \A id \in DOMAIN last.snap :
          /\ id \in DOMAIN entities
          /\ 2 * Abs(LiveBody(id).pos.x - last.snap[id].pos.x) <= 1
          /\ 2 * Abs(LiveBody(id).pos.y - last.snap[id].pos.y) <= 1
          /\ LiveBody(id).angle = last.snap[id].angle

\* the pre-state holds bodies just built from the scene data: the object was
\* created by the last operation, or the last operation rebuilt the world
FreshlyBuilt(id) ==
    \/ last.op = "createObject" /\ last.id = id
    \/ last.op = "setViewMode" /\ last.arg >= 1

\* C3 (as stated): for an Incline/Triangle, Cone or Trapezoid, point mass or
\* not, building the body in side view and syncing back with no tick in
\* between leaves the SceneObject's x and y as they were.
C3_OffsetRoundTrip ==
    [][(currentViewMode = "side" /\ last'.op = "setViewMode" /\ last'.arg >= 1)
        => \A id \in DOMAIN sceneData :
              (IsOffsetType(sceneData[id].type) /\ FreshlyBuilt(id)
                 /\ id \in DOMAIN entities)
              => /\ sceneData'[id].x = sceneData[id].x
                 /\ sceneData'[id].y = sceneData[id].y]_vars

\* the fields of a SceneObject the sync may write when leaving a view
SyncFields(mode) ==
    IF mode = "side" THEN {"x", "y", "angle"} ELSE {"x", "z", "angleTop"}

\* C4: setViewMode(m) with m the current mode changes nothing; with another
\* mode the sync writes only x and the pair of the view being left, every
\* other field of every SceneObject keeps its value.
C4_SetViewModeFrame ==
    [][(last'.op = "setViewMode")
        => IF currentViewMode' = currentViewMode
           THEN UNCHANGED <<sceneData, entities, bodies, world, gravity>>
           ELSE /\ DOMAIN sceneData' = DOMAIN sceneData
                /\ \A id \in DOMAIN sceneData :
                     \A f \in DOMAIN sceneData[id] \ SyncFields(currentViewMode) :
                        sceneData'[id][f] = sceneData[id][f]]_vars

\* a view switch out of the side view after a tick: the sync has written the
\* fallen body's y, and z kept its value
C4_Witness ==
    /\ last.op = "setViewMode" /\ last.arg = 1 /\ currentViewMode = "top"
    /\ \E id \in DOMAIN sceneData :
          sceneData[id].y = YOf(id) + 1 /\ sceneData[id].z = 300

DimensionFields == {"width", "height", "depth", "radius", "sides", "isPointMass"}

ChangesDimension(data, u) ==
    \E f \in DimensionFields \cap DOMAIN u : u[f] # data[f]

\* C5 (as stated): updateObject(id, u) on an object with a live body keeps the
\* same body instance when u changes none of width, height, depth, radius,
\* sides, isPointMass, and registers a newly built body made from the merged
\* SceneObject (the old one gone from the world) when u changes any of them.
C5_RebuildIffDimensionChanged ==
    [][(last'.op = "updateObject" /\ last'.id \in DOMAIN entities)
        => LET id == last'.id
               u == UpdateSeq[last'.arg]
           IN /\ id \in DOMAIN entities'
              /\ IF ChangesDimension(sceneData[id], u)
                 THEN /\ entities'[id] # entities[id]
                      /\ entities[id] \notin world'
                      /\ entities'[id] \in world'
                      /\ <<bodies'[entities'[id]]>> =
                            NewBody(sceneData'[id], currentViewMode,
                                    globalAirResistance, entities'[id])
                 ELSE entities'[id] = entities[id]]_vars

EntriesOf(L, cid) == {j \in 1..Len(L) : L[j].c.id = cid}
Listed(cons, c) == \E i \in 1..Len(cons) : cons[i] = c
Without(cons, c) == SelectSeq(cons, LAMBDA d : d # c)
NamesMissing(c) ==
    \/ c.bodyAId # NoId /\ c.bodyAId \notin DOMAIN entities
    \/ c.bodyBId # NoId /\ c.bodyBId \notin DOMAIN entities

\* C7: in every tick a listed constraint naming a body id without a live body
\* is solved in neither pass, the bodies end the tick as they would without
\* it, and it is still listed afterwards; a listed spring, rope, pulley or
\* force whose bodies all exist is solved.
C7_MissingBodySkipped ==
    [][(last'.op = "tick")
        => \A i \in 1..Len(customConstraints) :
             LET c == customConstraints[i]
             IN IF NamesMissing(c)
                THEN /\ EntriesOf(solveLog', c.id) = {}
                     /\ Listed(customConstraints', c)
                     /\ bodies' = EngineUpdate(
                            beforeUpdate(HeapNow, Without(customConstraints, c)).H,
                            gravity).bodies
                ELSE c.type # "friction" => EntriesOf(solveLog', c.id) # {}]_vars

\* a tick has passed over a spring or pulley between a, which has a live
\* body, and b, which has none: it is still listed and a has only fallen
C7_Witness ==
    /\ last.op = "tick"
    /\ "a" \in DOMAIN entities /\ "b" \notin DOMAIN entities
    /\ \E i \in 1..Len(customConstraints) :
          /\ customConstraints[i].type \in {"spring", "pulley"}
          /\ customConstraints[i].bodyBId = "b"
    /\ solveLog = <<>>
    /\ bodies[entities["a"]].pos.x = 100

IsForceBased(c) ==
    c.type = "spring" \/ c.type = "force" \/ (c.type = "ideal_rope" /\ c.isElastic)
IsPositionBased(c) ==
    c.type = "pulley" \/ (c.type = "ideal_rope" /\ ~c.isElastic)

\* C8: in one tick every listed spring, elastic rope and force whose bodies
\* exist is solved exactly once, in the force pass, and every force-pass solve
\* comes before every position solve; every listed non-elastic rope and
\* pulley whose bodies exist is solved once in each iteration 1..10 for as
\* long as it is listed (up to the iteration in which it breaks); no solve is
\* outside iterations 1..10 and friction constraints are never solved.
C8_ForceOnceThenTenIterations ==
    [][(last'.op = "tick")
        => LET L == solveLog'
           IN /\ \A j \in 1..Len(L) :
                    /\ L[j].c.type # "friction"
                    /\ L[j].phase = "force" => L[j].iter = 0 /\ IsForceBased(L[j].c)
                    /\ L[j].phase = "pbd" =>
                          L[j].iter \in 1..10 /\ IsPositionBased(L[j].c)
                    /\ \A k \in 1..Len(L) :
                          (L[j].phase = "force" /\ L[k].phase = "pbd") => j < k
              /\ \A i \in 1..Len(customConstraints) :
                    LET c == customConstraints[i]
                        E == EntriesOf(L, c.id)
                        broken == {j \in E : L[j].broke}
                        n == IF broken = {} THEN 10
                             ELSE L[CHOOSE j \in broken : TRUE].iter
                    IN ~NamesMissing(c) =>
                         /\ IsForceBased(c) =>
                               Cardinality(E) = 1 /\ \A j \in E : L[j].phase = "force"
                         /\ IsPositionBased(c) =>
                               /\ Cardinality(E) = n
                               /\ Cardinality(broken) <= 1
                               /\ \A it \in 1..n :
                                     \E j \in E : L[j].phase = "pbd" /\ L[j].iter = it
                               /\ \A j, k \in E : j < k => L[j].iter < L[k].iter]_vars

\* a tick over a non-elastic rope listed before a spring, both with all
\* their bodies: the spring's one solve is first in the log, the rope's ten
\* solves follow
C8_Witness ==
    /\ last.op = "tick"
    /\ Len(customConstraints) = 2
    /\ customConstraints[1].type = "ideal_rope" /\ ~customConstraints[1].isElastic
    /\ customConstraints[2].type = "spring"
    /\ Len(solveLog) = 11
    /\ solveLog[1].c.type = "spring"
    /\ solveLog[11].c.type = "ideal_rope" /\ solveLog[11].iter = 10

IsRope(c) == c.type = "ideal_rope"

CreateOps ==
    {"createIdealRope", "createSpring", "createPulley", "createForce",
     "createFrictionConstraint"}

\* C10: the solver call that breaks a rope changes no body; no later solve of
\* that tick is for the rope's id and the id is off the list after the tick;
\* every solve of a tick is for a constraint listed when the tick began, so an
\* unlisted rope acts in no later tick; and an id enters the list only by the
\* create operation called with it.
C10_BrokenRopeStaysOut ==
    [][/\ (last'.op = "tick") =>
            \A j \in 1..Len(solveLog') :
               LET e == solveLog'[j]
               IN /\ Listed(customConstraints, e.c)
                  /\ e.broke =>
                        /\ ~e.changed
                        /\ \A k \in EntriesOf(solveLog', e.c.id) : k <= j
                        /\ e.c.id \notin ConstraintIds(customConstraints')
       /\ \A cid \in ConstraintIds(customConstraints')
                        \ ConstraintIds(customConstraints) :
             last'.op \in CreateOps /\ last'.id = cid]_vars

\* the second tick has ended with connector c2 listed and c1 not, and no rope
\* broke in it: c1 broke in the first tick and was not solved in the second
C10_Witness ==
    /\ last.op = "tick" /\ tickCount = 2
    /\ ConstraintIds(customConstraints) = {"c2"}
    /\ \A j \in 1..Len(solveLog) : ~solveLog[j].broke /\ solveLog[j].c.id = "c2"
    /\ solveLog # <<>>

\* C11: a solve of a rope, elastic or not, whose two anchor points are no
\* farther apart than its length changes no body (position, velocity, force)
\* and does not remove the rope.
C11_SlackRopeDoesNothing ==
    [][(last'.op = "tick")
        => \A j \in 1..Len(solveLog') :
             LET e == solveLog'[j]
             IN (IsRope(e.c) /\ e.stretch <= 0) => ~e.changed /\ ~e.broke]_vars

\* a tick that solved a slack elastic rope and a slack non-elastic rope
C11_Witness ==
    /\ last.op = "tick"
    /\ \E j, k \in 1..Len(solveLog) :
          /\ IsRope(solveLog[j].c) /\ solveLog[j].c.isElastic
          /\ solveLog[j].stretch < 0
          /\ IsRope(solveLog[k].c) /\ ~solveLog[k].c.isElastic
          /\ solveLog[k].stretch < 0

\* the only connector is a non-elastic rope without maxForce from a dynamic
\* body to a fixed point
SingleIdealRope ==
    /\ Len(customConstraints) = 1
    /\ IsRope(customConstraints[1]) /\ ~customConstraints[1].isElastic
    /\ customConstraints[1].maxForce = Undef
    /\ customConstraints[1].bodyBId = NoId
    /\ customConstraints[1].bodyAId \in DOMAIN entities
    /\ ~bodies[entities[customConstraints[1].bodyAId]].isStatic

\* C12 (as stated, in the form a finite run refutes): with a single
\* non-elastic rope of length L without maxForce between a dynamic body and a
\* fixed point and the distance above L, ticks bring the distance to within 2%
\* of L; so a tick that leaves the bodies and the rope as they were (a state
\* every later tick repeats) has the distance within 2% of L.
C12_RopeConverges ==
    [][(last'.op = "tick" /\ last.op = "tick" /\ SingleIdealRope
          /\ bodies' = bodies /\ customConstraints' = customConstraints
          /\ Stretch(HeapNow, customConstraints[1]) > 0)
        => 50 * Stretch(HeapNow, customConstraints[1])
              <= customConstraints[1].length]_vars

\* the two segments of a pulley in a body store
SegA(H, c) == VSub(AnchorPos(H, Resolve(H, c.bodyAId), c.pointA), c.pointC)
SegB(H, c) == VSub(AnchorPos(H, Resolve(H, c.bodyBId), c.pointB), c.pointD)
TotalLen(H, c) == Magnitude(SegA(H, c)) + Magnitude(SegB(H, c))
BothDynamic(H, c) ==
    /\ ~MissingBody(H, c) /\ c.bodyAId # NoId /\ c.bodyBId # NoId
    /\ Dynamic(H, Resolve(H, c.bodyAId)) /\ Dynamic(H, Resolve(H, c.bodyBId))
Moved(H, H2, id) == Magnitude(VSub(BodyOf(H2, id).pos, BodyOf(H, id).pos))

\* C13 (as stated): one solve of a listed pulley between two dynamic bodies,
\* when the total length exceeds the rest length, shortens neither segment's
\* distance by less than nothing, moves body A by diff * k * mB / (mA + mB)
\* and body B by diff * k * mA / (mA + mB) (the inverse-mass ratio, each to
\* within two pixels of rounding) and leaves the total no shorter than the
\* rest length less that rounding; at or below the rest length it moves
\* nothing.
C13_PulleyCorrection ==
    \A i \in 1..Len(customConstraints) :
       LET c == customConstraints[i]
           H == HeapNow
           H2 == _solveIdealPulley(H, customConstraints, c).H
           diff == TotalLen(H, c) - c.length
           mA == BodyOf(H, c.bodyAId).mass
           mB == BodyOf(H, c.bodyBId).mass
           kH == PbdK(c)
       IN (c.type = "pulley" /\ BothDynamic(H, c)) =>
            IF diff > 0
            THEN /\ Magnitude(SegA(H2, c)) <= Magnitude(SegA(H, c))
                 /\ Magnitude(SegB(H2, c)) <= Magnitude(SegB(H, c))
                 /\ Abs(Moved(H, H2, c.bodyAId) * 100 * (mA + mB) - diff * kH * mB)
                       <= 2 * 100 * (mA + mB)
                 /\ Abs(Moved(H, H2, c.bodyBId) * 100 * (mA + mB) - diff * kH * mA)
                       <= 2 * 100 * (mA + mB)
                 /\ TotalLen(H2, c) >= c.length - 2
                 /\ TotalLen(H2, c) <= TotalLen(H, c)
            ELSE H2.bodies = H.bodies

\* the scene of the pulley test: both boxes start at the same height with the
\* total length between 600 and 640
PulleyTestScene ==
    /\ DOMAIN entities = Ids /\ Len(customConstraints) = 1
    /\ sceneData["a"].y = sceneData["b"].y
    /\ sceneData["a"].y \in {300, 320}

PairIds(p) == {bodies[p.bodyA].label, bodies[p.bodyB].label}

\* C15 (as stated): a collision event that follows the creation of the
\* friction constraint with value f between A and B leaves every pair of
\* {A, B}, in either order, with friction and frictionStatic equal to f, for
\* any f including 0, and every other pair with the engine's coefficients.
C15_FrictionOverride ==
    [][(last.op = "createFrictionConstraint" /\ last'.op = "handleCollisions")
        => \A i \in 1..Len(pairs') :
             LET c == customConstraints[Len(customConstraints)]
                 before == last'.snap[i]
                 after == pairs'[i]
             IN IF PairIds(before) = {c.bodyAId, c.bodyBId}
                THEN after.friction = last.arg /\ after.frictionStatic = last.arg
                ELSE /\ after.friction = before.friction
                     /\ after.frictionStatic = before.frictionStatic]_vars

\* the conveyor and the target of an engine pair, <<>> when neither body is a
\* conveyor
BeltAndTarget(p) ==
    LET idA == bodies[p.bodyA].label
        idB == bodies[p.bodyB].label
    IN IF idA \in DOMAIN sceneData /\ sceneData[idA].type = "Conveyor"
       THEN <<p.bodyA, p.bodyB>>
       ELSE IF idB \in DOMAIN sceneData /\ sceneData[idB].type = "Conveyor"
       THEN <<p.bodyB, p.bodyA>>
       ELSE <<>>

\* C16 (as stated, the force of one collision event): for a conveyor created
\* with speed S and a non-static body of non-zero friction touching it, the
\* force the event adds to the body lies along the belt, points toward the
\* belt speed (forward when the body is slower than S, backward when faster)
\* and is zero when the body's velocity along the belt equals S.
C16_ConveyorForce ==
    [][(last'.op = "handleCollisions")
        => \A i \in 1..Len(last'.snap) :
             LET bt == BeltAndTarget(last'.snap[i])
                 S == sceneData[bodies[bt[1]].label].speed
                 dir == BeltDir(bodies[bt[1]])
                 v == VDot(bodies[bt[2]].vel, dir)
                 added == VSub(bodies'[bt[2]].force, bodies[bt[2]].force)
                 F == VDot(added, dir)
             IN (bt # <<>> /\ ~bodies[bt[2]].isStatic /\ bodies[bt[2]].friction > 0)
                => /\ added = Vec(dir.x * F, dir.y * F)
                   /\ v = S => F = 0
                   /\ v < S => F > 0
                   /\ v > S => F < 0]_vars

\* the cut of a cutObject step, and the bodies it hits in the state before
CutOf(l) == l.arg
HitNow(l) == HitBodies(HeapNow, CutOf(l)[1], CutOf(l)[2])
CrossingsOf(bid, l) ==
    Len(Intersections(BodyVertices(bodies[bid]), CutOf(l)[1], CutOf(l)[2]))
\* the hit bodies the slicer takes: exactly two intersections and a SceneObject
SlicedNow(l) ==
    {bid \in HitNow(l) : CrossingsOf(bid, l) = 2 /\ bodies[bid].label \in DOMAIN sceneData}

\* C17: in a cutObject call, a hit body whose outline meets the segment in a
\* number of edge intersections other than two keeps its SceneObject, its
\* body and its id, and every hit body with exactly two intersections is
\* sliced in that same call.
C17_OtherCountsUntouched ==
    [][(last'.op = "cutObject")
        => /\ \A bid \in HitNow(last') \ SlicedNow(last') :
                LET id == bodies[bid].label
                IN /\ bid \in world' /\ bodies'[bid] = bodies[bid]
                   /\ id \in DOMAIN entities => (id \in DOMAIN entities'
                                                  /\ entities'[id] = entities[id])
                   /\ id \in DOMAIN sceneData => (id \in DOMAIN sceneData'
                                                   /\ sceneData'[id] = sceneData[id])
           /\ \A bid \in SlicedNow(last') :
                /\ bodies[bid].label \notin DOMAIN sceneData'
                /\ bodies[bid].label \o "_A" \in DOMAIN sceneData'
                /\ bodies[bid].label \o "_B" \in DOMAIN sceneData']_vars

\* a cut that ended inside the dynamic box b (one intersection) and sliced a
C17_Witness ==
    /\ last.op = "cutObject"
    /\ last.arg = <<Vec(60, 100), Vec(160, 100)>>
    /\ DOMAIN sceneData = {"a_A", "a_B", "b"}
    /\ sceneData["a_A"].y = 112
    /\ ~bodies[entities["b"]].isStatic

\* the outline is the loop moved by one vector
IsTranslate(vs, loop) ==
    /\ Len(vs) = Len(loop)
    /\ \A i \in 1..Len(vs) : VSub(loop[i], vs[i]) = VSub(loop[1], vs[1])

\* a sliced piece as the claim describes it, in the state after the cut
IsPiece(sd, H, pid) ==
    /\ pid \in DOMAIN sd /\ pid \in DOMAIN H.entities
    /\ sd[pid].type = "Polygon" /\ sd[pid].isStatic = FALSE
    /\ "customVertices" \in DOMAIN sd[pid]
    /\ Abs(Centre(sd[pid].customVertices).x) <= 1
    /\ Abs(Centre(sd[pid].customVertices).y) <= 1
    /\ H.entities[pid] \in H.world
    /\ ~BodyOf(H, pid).isStatic
    /\ IsTranslate(sd[pid].customVertices, BodyVertices(BodyOf(H, pid)))

C19_PiecesHaveHalfMass ==
    [][(last'.op = "cutObject")
        => \A bid \in SlicedNow(last') :
             LET id == bodies[bid].label
                 M == sceneData[id].mass
             IN Truthy(M) =>
                  \A pid \in {id \o "_A", id \o "_B"} :
                     /\ 2 * sceneData'[pid].mass = M
                     /\ 2 * bodies'[entities'[pid]].mass = M * 1000
                     /\ \A mode \in Modes :
                          2 * NewBody(sceneData'[pid], mode, globalAirResistance,
                                      nextBid')[1].mass = M * 1000]_vars

\* the vertices of a loop between its two cut points
Inner(loop) == SubSeq(loop, 2, Len(loop) - 1)
Occurrences(v, loop) == Cardinality({i \in 1..Len(loop) : loop[i] = v})

\* C20: for an outline of n vertices cut at the edges i1 < i2, loop A holds
\* the vertices i1+1 .. i2 and loop B the others, each in outline order,
\* every original vertex is in exactly one loop, and each loop holds both cut
\* points, also for i2 = n - 1.
C20_LoopsPartitionOutline ==
    (last.op = "loops") =>
        LET n == last.arg[1]
            i1 == last.arg[2]
            i2 == last.arg[3]
            vs == Outline(n)
            A == last.snap[1]
            B == last.snap[2]
        IN /\ Inner(A) = SubSeq(vs, i1 + 2, i2 + 1)
           /\ Inner(B) = SubSeq(vs, i2 + 2, n) \o SubSeq(vs, 1, i1 + 1)
           /\ \A k \in 1..n : Occurrences(vs[k], A) + Occurrences(vs[k], B) = 1
           /\ \A L \in {A, B} :
                 /\ Occurrences(CutPoint(i1).point, L) = 1
                 /\ Occurrences(CutPoint(i2).point, L) = 1

\* the loops of a four-vertex outline cut at the edges 1 and 3 (the edge that
\* wraps around)
C20_Witness ==
    /\ last.op = "loops"
    /\ last.arg = <<4, 1, 3>>
    /\ Len(last.snap[1]) = 4 /\ Len(last.snap[2]) = 4

\* C21: right after restoreState, the state that getState returns has the
\* scene data, the constraints and the gravity (x and y) of the state that
\* was restored, in either view and for any gravity set before.
C21_RestoreRoundTrip ==
    last.op = "restoreState" => getState = last.snap

\* the operations that write scene data
SceneWriters ==
    {"createObject", "updateObject", "removeObject", "cutObject", "setViewMode",
     "restoreState", "clear"}

\* C22: an engine step (solver pass, collision handlers, integration,
\* trajectory recording) changes no field of a scene object, not the set of
\* ids and not the view mode; the scene data changes only in createObject,
\* updateObject, removeObject, cutObject, setViewMode, restoreState and clear.
C22_TickLeavesSceneData ==
    [][/\ last'.op \in {"tick", "handleCollisions"}
            => sceneData' = sceneData /\ currentViewMode' = currentViewMode
       /\ sceneData' # sceneData => last'.op \in SceneWriters
       /\ currentViewMode' # currentViewMode => last'.op = "setViewMode"]_vars

\* an engine step has moved the box away from its recorded place, with a
\* solver call and a trajectory point behind it
C22_Witness ==
    /\ last.op = "tick"
    /\ "a" \in DOMAIN sceneData /\ HasBody(HeapNow, "a")
    /\ BodyOf(HeapNow, "a").pos # Vec(sceneData["a"].x, sceneData["a"].y)
    /\ currentViewMode = "side"
    /\ solveLog # <<>>
    /\ trajectories # <<>> /\ "a" \in DOMAIN trajectories[1]

\* C23: no engine step throws out of the handlers of the core, in any state
\* the operations lead to: with an object whose showTrajectory is set right
\* after construction, with constraints that name missing bodies, with
\* anchors that coincide.
C23_NoTickThrows == ~thrown

\* the bodies now registered under the ids a constraint names
LiveEnds(c) ==
    {entities[id] : id \in {c.bodyAId, c.bodyBId} \cap DOMAIN entities}

\* a rope between a registered dynamic body and a fixed point, stretched by
\* less than the cap of the position correction lets through and by enough
\* for the correction to be a whole pixel along one axis at least, the
\* resolution of positions here
PullsBody(c) ==
    /\ c.type = "ideal_rope" /\ ~c.isElastic /\ c.bodyBId = NoId
    /\ HasBody(HeapNow, c.bodyAId)
    /\ ~BodyOf(HeapNow, c.bodyAId).isStatic
    /\ Stretch(HeapNow, c) * PbdK(c) >= 200
    /\ Stretch(HeapNow, c) * PbdK(c) < 5000
    /\ ~IdealBreaks(c, Stretch(HeapNow, c))

\* C24: in every engine step, the bodies a solver call acts on are bodies
\* registered at that step under the ids the constraint names, and bodies of
\* the world; a rope made before a rebuild moves the body built by it.
C24_SolversUseLiveBodies ==
    [][last'.op = "tick" =>
          /\ \A j \in 1..Len(solveLog') :
                /\ solveLog'[j].acted \subseteq LiveEnds(solveLog'[j].c)
                /\ solveLog'[j].acted \subseteq world
          /\ \A i \in 1..Len(customConstraints) :
                PullsBody(customConstraints[i]) =>
                    \E j \in 1..Len(solveLog') :
                        /\ solveLog'[j].c = customConstraints[i]
                        /\ solveLog'[j].acted = {entities[customConstraints[i].bodyAId]}
      ]_vars

\* an engine step in which the rope moved the only body of the world, a body
\* built after the one the pointer constraint holds
C24_Witness ==
    /\ last.op = "tick"
    /\ HasBody(HeapNow, "a") /\ world = {entities["a"]}
    /\ \E j \in 1..Len(solveLog) :
          /\ solveLog[j].c.type = "ideal_rope"
          /\ solveLog[j].acted = {entities["a"]}
    /\ \E i \in 1..Len(customConstraints) :
          /\ "bodyA" \in DOMAIN customConstraints[i]
          /\ customConstraints[i].bodyA < entities["a"]

\* a pointer constraint on a registered dynamic body whose grabbed point is
\* away from the pointer point
Grabs(c, id) ==
    /\ c.id = InteractionId(id)
    /\ HasBody(HeapNow, id)
    /\ ~BodyOf(HeapNow, id).isStatic
    /\ Magnitude(VSub(c.pointB,
                      AnchorPos(HeapNow, <<entities[id]>>, c.pointA))) >= 1

\* the force on a body after the force pass of an engine step taken now
ForcePassForce(id) ==
    ForceEach([H |-> HeapNow, cons |-> customConstraints, log |-> <<>>],
              customConstraints, 1).H.bodies[entities[id]].force

\* C30: while a pointer constraint holds a dynamic body whose grabbed point is
\* away from the pointer point, the force pass of every engine step applies
\* to the body a force directed to the pointer point.
C30_GrabPullsBody ==
    [][last'.op = "tick" =>
          \A i \in 1..Len(customConstraints) :
              Grabs(customConstraints[i], "a") =>
                  VDot(ForcePassForce("a"),
                       VSub(customConstraints[i].pointB,
                            AnchorPos(HeapNow, <<entities["a"]>>,
                                      customConstraints[i].pointA))) > 0
      ]_vars

\* C25: once the global air resistance is set to a, every registered body
\* that is not static and whose scene object has no frictionAir of its own has
\* frictionAir a: a body that was there at the call, made or rebuilt after
\* it, or static at the call and made dynamic after it.
C25_AirResistanceEverywhere ==
    globalAirResistance # 0 =>
        \A id \in DOMAIN entities \cap DOMAIN sceneData :
            (~BodyOf(HeapNow, id).isStatic /\ sceneData[id].frictionAir = Undef)
                => BodyOf(HeapNow, id).frictionAir = globalAirResistance

\* C28: when cutObject slices an object in top view, the scene objects of
\* the two pieces keep the y and the angle of the object; the place of the
\* pieces in the top view is recorded in x and z only.
C28_TopCutKeepsY ==
    [][(last'.op = "cutObject" /\ currentViewMode = "top")
        => \A bid \in SlicedNow(last') :
             LET id == bodies[bid].label
             IN \A pid \in {id \o "_A", id \o "_B"} :
                   /\ sceneData'[pid].y = sceneData[id].y
                   /\ sceneData'[pid].angle = sceneData[id].angle]_vars

\* C26: after any sequence of createObject (also with an id that exists),
\* updateObject, removeObject, cutObject, setViewMode, restoreState and clear,
\* the bodies of the world are exactly the registered bodies, every
\* registered id is an id of the scene data, and no two bodies of the world
\* carry the same id.
C26_WorldMatchesBodyMap ==
    /\ world = {entities[id] : id \in DOMAIN entities}
    /\ DOMAIN entities \subseteq DOMAIN sceneData
    /\ \A b1 \in world, b2 \in world :
          bodies[b1].label = bodies[b2].label => b1 = b2

\* C27: a state given to restoreState is not changed by what is done
\* afterwards: updateObject, createObject, removeObject, setViewMode and the
\* creation of connectors leave it as it was, so that restoring it again
\* gives the same scene.
C27_SnapshotUnchanged ==
    [][(history # <<>> /\ last'.op # "pushHistory")
          => (history' # <<>> /\ Saved' = Saved)]_vars

\* one call of the solver of a constraint on a body store
SolveOnce(H, c) ==
    IF c.type = "spring" THEN _solveSpring(H, customConstraints, c)
    ELSE IF c.type = "ideal_rope" THEN _solveIdealRope(H, customConstraints, c)
    ELSE IF c.type = "pulley" THEN _solveIdealPulley(H, customConstraints, c)
    ELSE Solved(H, customConstraints)

\* the end id of c is a dynamic body and the other end is a static body or a
\* fixed point
OnlyDynamicEnd(H, c, id, other) ==
    /\ id # NoId /\ Dynamic(H, Resolve(H, id))
    /\ ~Dynamic(H, Resolve(H, other))

\* the length a position solver has to take out: of a pulley, the total
\* beyond its length; of a rope, the distance of the ends beyond its length
Excess(H, c) ==
    IF c.type = "pulley" THEN TotalLen(H, c) - c.length ELSE Stretch(H, c)

\* what one solver call does to static bodies and to a lone dynamic end
SolverSparesStatic(H, c) ==
    LET H2 == SolveOnce(H, c).H
        positional == c.type = "pulley" \/ (c.type = "ideal_rope" /\ ~c.isElastic)
        lone(id, other) ==
            (positional /\ OnlyDynamicEnd(H, c, id, other) /\ H2 # H) =>
                /\ Abs(Moved(H, H2, id) * 100 - Excess(H, c) * PbdK(c)) <= 200
                /\ \A bid \in DOMAIN H.bodies \ {H.entities[id]} :
                      H2.bodies[bid] = H.bodies[bid]
    IN /\ \A bid \in DOMAIN H.bodies :
             H.bodies[bid].isStatic => H2.bodies[bid] = H.bodies[bid]
       /\ lone(c.bodyAId, c.bodyBId)
       /\ lone(c.bodyBId, c.bodyAId)
       /\ (~Dynamic(H, Resolve(H, c.bodyAId)) /\ ~Dynamic(H, Resolve(H, c.bodyBId)))
             => H2.bodies = H.bodies

====
